---- MODULE Spec2Model ----
(***************************************************************************)
(* A model of zap, a terminal file registry (bubbletea program).           *)
(*                                                                         *)
(* Go strings are TLA+ strings; a byte is a string of length one.  The     *)
(* model struct of main.go is the record the handlers below take and       *)
(* return; the variables of the module are its fields, the registry file   *)
(* on disk, the command the last handler returned and the commands the     *)
(* runtime is running.                                                     *)
(***************************************************************************)
EXTENDS Integers, Sequences, FiniteSets, Bags, TLC

(***************************************************************************)
(* strings, path/filepath                                                  *)
(***************************************************************************)

\* The printable ASCII bytes in byte order: 32 (space) to 95 (_), and 97 (a)
\* to 126 (~).  Byte 96 cannot be written in a TLA+ string and is left out.
AsciiLow ==
  " !\"#$%&'()*+,-./0123456789:;<=>?@ABCDEFGHIJKLMNOPQRSTUVWXYZ[\\]^_"

AsciiHigh == "abcdefghijklmnopqrstuvwxyz{|}~"

UpperChars == "ABCDEFGHIJKLMNOPQRSTUVWXYZ"

LowerChars == "abcdefghijklmnopqrstuvwxyz"

At(s, i) == SubSeq(s, i, i)

Bytes(table) == {At(table, i) : i \in 1..Len(table)}

IndexIn(table, c) == CHOOSE i \in 1..Len(table) : At(table, i) = c

\* The byte value of each one-byte string (Go compares strings bytewise).
OrdTable ==
  [c \in Bytes(AsciiLow) \cup Bytes(AsciiHigh) |->
     IF c \in Bytes(AsciiLow) THEN 31 + IndexIn(AsciiLow, c)
     ELSE 96 + IndexIn(AsciiHigh, c)]

\* The lower-case letter of each upper-case letter.
LowerTable == [c \in Bytes(UpperChars) |-> At(LowerChars, IndexIn(UpperChars, c))]

\* The image of byte c under a table of bytes; c itself when it has none.
Lookup(table, c) == IF c \in DOMAIN table THEN table[c] ELSE c

LowerOf(c) == Lookup(LowerTable, c)

RECURSIVE ToLower(_)
ToLower(s) == IF s = "" THEN "" ELSE LowerOf(At(s, 1)) \o ToLower(Tail(s))

\* strings.EqualFold on ASCII text.
EqualFold(a, b) == ToLower(a) = ToLower(b)

\* Go's c < d on bytes, given their codes.
ByteLess(codes, c, d) == codes[c] < codes[d]

\* Go's a < b on strings: bytewise lexicographic.
RECURSIVE StrLess(_, _)
StrLess(a, b) ==
  IF b = "" THEN FALSE
  ELSE IF a = "" THEN TRUE
  ELSE IF At(a, 1) = At(b, 1) THEN StrLess(Tail(a), Tail(b))
  ELSE ByteLess(OrdTable, At(a, 1), At(b, 1))

HasPrefix(s, p) == Len(s) >= Len(p) /\ SubSeq(s, 1, Len(p)) = p

Contains(s, sub) ==
  \E i \in 1..(Len(s) - Len(sub) + 1) : SubSeq(s, i, i + Len(sub) - 1) = sub

\* The ASCII white space of strings.TrimSpace: space, tab, line feed,
\* vertical tab (byte 11, written as the byte itself), form feed and
\* carriage return.
IsSpace(c) == c \in {" ", "\t", "\n", "", "\f", "\r"}

RECURSIVE TrimLeft(_)
TrimLeft(s) ==
  IF s # "" /\ IsSpace(At(s, 1)) THEN TrimLeft(Tail(s)) ELSE s

RECURSIVE TrimRight(_)
TrimRight(s) ==
  IF s # "" /\ IsSpace(At(s, Len(s)))
  THEN TrimRight(SubSeq(s, 1, Len(s) - 1)) ELSE s

TrimSpace(s) == TrimRight(TrimLeft(s))

\* The elements of a slash-separated path, empty elements included.
RECURSIVE SplitPath(_, _)
SplitPath(s, cur) ==
  IF s = "" THEN <<cur>>
  ELSE IF At(s, 1) = "/" THEN <<cur>> \o SplitPath(Tail(s), "")
  ELSE SplitPath(Tail(s), cur \o At(s, 1))

\* filepath.Clean on a rooted path: empty and "." elements are dropped and
\* ".." removes the element before it (at the root it is dropped).
RECURSIVE CleanElems(_, _)
CleanElems(elems, acc) ==
  IF elems = <<>> THEN acc
  ELSE LET e == Head(elems) IN
       IF e = "" \/ e = "." THEN CleanElems(Tail(elems), acc)
       ELSE IF e = ".."
            THEN CleanElems(Tail(elems),
                            IF acc = <<>> THEN acc
                            ELSE SubSeq(acc, 1, Len(acc) - 1))
            ELSE CleanElems(Tail(elems), Append(acc, e))

RECURSIVE JoinElems(_)
JoinElems(elems) ==
  IF elems = <<>> THEN "" ELSE "/" \o Head(elems) \o JoinElems(Tail(elems))

CleanRooted(p) ==
  LET elems == CleanElems(SplitPath(p, ""), <<>>) IN
  IF elems = <<>> THEN "/" ELSE JoinElems(elems)

\* The home directory os.UserHomeDir returns: main() has already obtained it
\* without error when the event loop runs, so ExpandPath never takes its
\* error branch.  It is an absolute path.
HomeDir == "/h"

\* filepath.Join(homeDir, rest) for an absolute homeDir.
JoinHome(rest) ==
  IF rest = "" THEN CleanRooted(HomeDir) ELSE CleanRooted(HomeDir \o "/" \o rest)

ExpandPath(path) ==
  IF HasPrefix(path, "~/") THEN JoinHome(SubSeq(path, 3, Len(path))) ELSE path

\* filepath.Ext: the suffix from the last dot of the last path element.
RECURSIVE ExtFrom(_, _)
ExtFrom(path, i) ==
  IF i < 1 \/ At(path, i) = "/" THEN ""
  ELSE IF At(path, i) = "." THEN SubSeq(path, i, Len(path))
  ELSE ExtFrom(path, i - 1)

Ext(path) == ExtFrom(path, Len(path))

DetectFileType(path) ==
  LET ext == ToLower(Ext(path)) IN
  CASE ext = ".json" -> "json"
    [] ext \in {".yaml", ".yml"} -> "yaml"
    [] ext = ".toml" -> "toml"
    [] ext \in {".ini", ".conf"} -> "ini"
    [] ext = ".xml" -> "xml"
    [] ext \in {".md", ".markdown"} -> "markdown"
    [] ext = ".txt" -> "txt"
    [] ext = ".sh" -> "shell"
    [] ext = ".go" -> "go"
    [] ext = ".py" -> "python"
    [] ext = ".js" -> "javascript"
    [] ext = ".ts" -> "typescript"
    [] ext = ".rb" -> "ruby"
    [] OTHER -> "txt"

(***************************************************************************)
(* models.ConfigEntry, storage                                             *)
(***************************************************************************)

\* A ConfigEntry.  LastOpened is a count of clock ticks, 0 the zero time.
\* Tags is left out: no handler reads or writes it.
Entry(name, path, type, project, description, lastOpened) ==
  [Name |-> name, Path |-> path, Type |-> type, Project |-> project,
   Description |-> description, LastOpened |-> lastOpened]

\* No entry: what a nil *ConfigEntry and a header row stand for.
NoEntry == Entry("", "", "", "", "", -1)

Equals(c, other) ==
  c.Name = other.Name /\ c.Path = other.Path /\ c.Project = other.Project

\* The index of the first entry with this path; 0 is the nil result.
FindDuplicates(configs, path) ==
  IF \E i \in 1..Len(configs) : configs[i].Path = path
  THEN CHOOSE i \in 1..Len(configs) :
         /\ configs[i].Path = path
         /\ \A j \in 1..(i - 1) : configs[j].Path # path
  ELSE 0

\* configs without its entry at index i (1-based):
\* append(configs[:i], configs[i+1:]...).
RemoveAt(configs, i) ==
  SubSeq(configs, 1, i - 1) \o SubSeq(configs, i + 1, Len(configs))

DisplayProject(project) == IF project = "" THEN "General" ELSE project

LessProjectNameBytewise(a, b) ==
  IF DisplayProject(a.Project) # DisplayProject(b.Project)
  THEN StrLess(DisplayProject(a.Project), DisplayProject(b.Project))
  ELSE StrLess(a.Name, b.Name)

\* The less function of SortConfigs.
LessProjectName(a, b) ==
  IF ~EqualFold(DisplayProject(a.Project), DisplayProject(b.Project))
  THEN StrLess(ToLower(DisplayProject(a.Project)),
               ToLower(DisplayProject(b.Project)))
  ELSE StrLess(ToLower(a.Name), ToLower(b.Name))

LessRecentOldestFirst(a, b) == a.LastOpened < b.LastOpened

\* The less function of SortByRecentlyOpened: time.After.
LessRecent(a, b) == a.LastOpened > b.LastOpened

Less(byRecent, a, b) ==
  IF byRecent THEN LessRecent(a, b) ELSE LessProjectName(a, b)

\* sort.Slice on at most 12 elements is an insertion sort: each element moves
\* left while it is less than the element before it.
RECURSIVE InsertLeft(_, _, _)
InsertLeft(pre, e, byRecent) ==
  IF pre # <<>> /\ Less(byRecent, e, pre[Len(pre)])
  THEN Append(InsertLeft(SubSeq(pre, 1, Len(pre) - 1), e, byRecent),
              pre[Len(pre)])
  ELSE Append(pre, e)

RECURSIVE InsertionSort(_, _, _)
InsertionSort(data, n, byRecent) ==
  IF n = 0 THEN <<>>
  ELSE InsertLeft(InsertionSort(data, n - 1, byRecent), data[n], byRecent)

SortConfigs(configs) == InsertionSort(configs, Len(configs), FALSE)

SortByRecentlyOpened(configs) == InsertionSort(configs, Len(configs), TRUE)

(***************************************************************************)
(* search                                                                  *)
(***************************************************************************)

\* The loop of fuzzyMatch from (patternIdx, textIdx), both 0-based.
RECURSIVE FuzzyLoop(_, _, _, _)
FuzzyLoop(pattern, text, patternIdx, textIdx) ==
  IF textIdx < Len(text) /\ patternIdx < Len(pattern)
  THEN FuzzyLoop(pattern, text,
                 IF At(text, textIdx + 1) = At(pattern, patternIdx + 1)
                 THEN patternIdx + 1 ELSE patternIdx,
                 textIdx + 1)
  ELSE patternIdx = Len(pattern)

fuzzyMatchPrefix(pattern, text) ==
  IF pattern = "" THEN TRUE
  ELSE IF text = "" THEN FALSE
  ELSE HasPrefix(text, pattern)

fuzzyMatch(pattern, text) ==
  IF pattern = "" THEN TRUE
  ELSE IF text = "" THEN FALSE
  ELSE FuzzyLoop(pattern, text, 0, 0)

\* The fuzzy branch tries Name, Project, Path and Description; the substring
\* branch tries these and Type.
matchesSearchSkipsType(fuzzyMode, config, query) ==
  IF fuzzyMode
  THEN \E text \in {config.Name, config.Project, config.Path,
                    config.Description} :
         fuzzyMatch(query, ToLower(text))
  ELSE \E text \in {config.Name, config.Project, config.Path,
                    config.Description} :
         Contains(ToLower(text), query)

matchesSearch(fuzzyMode, config, query) ==
  IF fuzzyMode
  THEN \E text \in {config.Name, config.Project, config.Path,
                    config.Description} :
         fuzzyMatch(query, ToLower(text))
  ELSE \E text \in {config.Name, config.Project, config.Type, config.Path,
                    config.Description} :
         Contains(ToLower(text), query)

RECURSIVE FilterSeq(_, _, _)
FilterSeq(sorted, query, fuzzyMode) ==
  IF sorted = <<>> THEN <<>>
  ELSE (IF matchesSearch(fuzzyMode, Head(sorted), query)
        THEN <<Head(sorted)>> ELSE <<>>)
       \o FilterSeq(Tail(sorted), query, fuzzyMode)

(***************************************************************************)
(* the model struct: projection, layout, resolvers                         *)
(***************************************************************************)

ModeNormal == "Normal"
ModeEdit == "Edit"
ModeAdd == "Add"
ModeSearch == "Search"
ModeHelp == "Help"
ModeConfirmDelete == "ConfirmDelete"

\* Body applied to the value v: a local variable of the source that is
\* assigned once and read afterwards.
With(v, Body(_)) == Body(v)

\* The value getSortedConfigs returns for model m.  After construction
\* sortedCache is never nil: main() has run updateTable.
SortedOf(m) ==
  IF m.cacheValid THEN m.sortedCache
  ELSE IF m.sortByRecent THEN SortByRecentlyOpened(m.configs)
  ELSE SortConfigs(m.configs)

getSortedConfigsUncached(m) ==
  [m EXCEPT !.sortedCache = SortedOf([m EXCEPT !.cacheValid = FALSE]),
            !.cacheValid = TRUE,
            !.sortCalls = @ + 1]

\* The model after a call of getSortedConfigs (and so of getFilteredConfigs).
\* sortCalls counts the calls that did not return the cached list, and so
\* ran storage.SortConfigs or storage.SortByRecentlyOpened.
getSortedConfigs(m) ==
  [m EXCEPT !.sortedCache = SortedOf(m), !.cacheValid = TRUE,
            !.sortCalls = IF m.cacheValid THEN @ ELSE @ + 1]

FilteredFromReversed(m, sorted) ==
  IF m.searchQuery = "" THEN sorted
  ELSE FilterSeq([i \in 1..Len(sorted) |-> sorted[Len(sorted) + 1 - i]],
                 ToLower(m.searchQuery), m.fuzzyMode)

\* What getFilteredConfigs makes of the list getSortedConfigs returned.
FilteredFrom(m, sorted) ==
  IF m.searchQuery = "" THEN sorted
  ELSE FilterSeq(sorted, ToLower(m.searchQuery), m.fuzzyMode)

\* The value getFilteredConfigs returns for model m.
FilteredOf(m) == FilteredFrom(m, SortedOf(m))

\* The files that exist on the file system, by expanded path.
ExistingFiles == {"/a.yml", "/h/path/to/file.yml"}

FileExists(path) == ExpandPath(path) \in ExistingFiles

\* Glyphs outside ASCII are written as ASCII tags.
HeaderMark == "[dir] "
MissingMark == "[x] "
OpenedMark == "[ok] "

getColumnIndex(title) ==
  CASE title = "Name" -> 0
    [] title = "Project" -> 1
    [] title = "Type" -> 2
    [] title = "Path" -> 3
    [] title = "Description" -> 4
    [] OTHER -> -1

\* The header row of updateTable for the visible columns.
HeaderRow(visibleColumns, displayProject) ==
  [i \in 1..Len(visibleColumns) |->
     IF i = 1 THEN HeaderMark \o displayProject ELSE ""]

\* The record row of updateTable for the visible columns.
VisibleRow(visibleColumns, config) ==
  LET name == IF ~FileExists(config.Path) THEN MissingMark \o config.Name
              ELSE IF config.LastOpened # 0 THEN OpenedMark \o config.Name
              ELSE config.Name
      fullRowData == <<name, DisplayProject(config.Project), config.Type,
                       config.Path, config.Description>>
  IN [i \in 1..Len(visibleColumns) |->
        LET columnIndex == getColumnIndex(visibleColumns[i].Title) IN
        IF columnIndex >= 0 /\ columnIndex < Len(fullRowData)
        THEN fullRowData[columnIndex + 1] ELSE ""]

\* The loop of updateTable over filteredConfigs[k..], given the rows and the
\* index map built so far.  shown records the entry each row was rendered
\* from (NoEntry for a header row).
RECURSIVE BuildRows(_, _, _, _, _, _)
BuildRows(filtered, k, cols, byRecent, lastProject, acc) ==
  IF k > Len(filtered) THEN acc
  ELSE
    LET config == filtered[k]
        displayProject == DisplayProject(config.Project)
        withHeader == ~byRecent /\ displayProject # lastProject
        a1 == IF withHeader
              THEN [rows |-> Append(acc.rows, HeaderRow(cols, displayProject)),
                    configIndices |-> Append(acc.configIndices, -1),
                    shown |-> Append(acc.shown, NoEntry),
                    configIndex |-> acc.configIndex]
              ELSE acc
        a2 == [rows |-> Append(a1.rows, VisibleRow(cols, config)),
               configIndices |-> Append(a1.configIndices, a1.configIndex),
               shown |-> Append(a1.shown, config),
               configIndex |-> a1.configIndex + 1]
    IN BuildRows(filtered, k + 1, cols, byRecent,
                 IF withHeader THEN displayProject ELSE lastProject, a2)

ProjectionFromRowNumbers(m, filteredConfigs) ==
  With(BuildRows(filteredConfigs, 1, m.columns, m.sortByRecent, "",
                 [rows |-> <<>>, configIndices |-> <<>>, shown |-> <<>>,
                  configIndex |-> 0]),
       LAMBDA p :
         [p EXCEPT !.configIndices =
            [k \in 1..Len(p.rows) |->
               IF p.configIndices[k] = -1 THEN -1 ELSE k - 1]])

ProjectionFromGroupedAlways(m, filteredConfigs) ==
  BuildRows(filteredConfigs, 1, m.columns, FALSE, "",
            [rows |-> <<>>, configIndices |-> <<>>, shown |-> <<>>,
             configIndex |-> 0])

\* The rows and index map updateTable computes from filteredConfigs.
ProjectionFrom(m, filteredConfigs) ==
  BuildRows(filteredConfigs, 1, m.columns, m.sortByRecent, "",
            [rows |-> <<>>, configIndices |-> <<>>, shown |-> <<>>,
             configIndex |-> 0])

\* The rows and index map updateTable computes for model m.
Projection(m) == ProjectionFrom(m, FilteredOf(m))

\* table.SetRows: the cursor is lowered to the last row when it is past it.
SetRowsCursor(cursor, rows) ==
  IF cursor > Len(rows) - 1 THEN Len(rows) - 1 ELSE cursor

\* The end of updateTable: the index map and the rows are stored.
SetRows(m, p) ==
  [m EXCEPT !.rows = p.rows,
            !.configIndices = p.configIndices,
            !.shown = p.shown,
            !.cursor = SetRowsCursor(m.cursor, p.rows)]

\* updateTable calls getFilteredConfigs, which refreshes the sort cache, and
\* builds the rows from the list it returns.
updateTable(m) ==
  With(getSortedConfigs(m),
       LAMBDA c : SetRows(c, ProjectionFrom(c, FilteredFrom(c, c.sortedCache))))

Max(a, b) == IF a > b THEN a ELSE b

\* The first loop of adjustLayout: how many leading columns fit.
RECURSIVE CountFitting(_, _, _, _)
CountFitting(allColumns, i, totalWidth, availableWidth) ==
  IF i > Len(allColumns) THEN 0
  ELSE IF totalWidth + allColumns[i].Width <= availableWidth
       THEN 1 + CountFitting(allColumns, i + 1,
                             totalWidth + allColumns[i].Width, availableWidth)
       ELSE 0

RECURSIVE SumWidths(_)
SumWidths(cols) ==
  IF cols = <<>> THEN 0 ELSE Head(cols).Width + SumWidths(Tail(cols))

\* table.SetColumns: the table keeps the columns and renders the rows it
\* holds against them, cell i of a row with column i.  Rows of more cells
\* than there are columns make the index run out of range: the panic ends
\* the program.
SetColumns(m, visibleColumns) ==
  [m EXCEPT !.columns = visibleColumns,
            !.running = IF Len(m.rows) > 0
                           /\ Len(m.rows[1]) > Len(visibleColumns)
                        THEN FALSE ELSE @]

adjustLayoutUnclamped(m) ==
  LET tableHeight == Max(m.height - 6, 5)
      availableWidth == m.width - 6
      fitting == CountFitting(m.allColumns, 1, 0, availableWidth)
      visibleCols == IF fitting = 0 THEN 1 ELSE fitting
      allColumns == IF fitting = 0
                    THEN [m.allColumns EXCEPT ![1].Width = availableWidth]
                    ELSE m.allColumns
      over == m.scrollOffset + visibleCols > Len(allColumns)
      endCol == IF over THEN Len(allColumns) ELSE m.scrollOffset + visibleCols
      startCol == m.scrollOffset
      window == SubSeq(allColumns, startCol + 1, endCol)
      extraWidth == availableWidth - SumWidths(window)
      visibleColumns ==
        IF Len(window) > 0 /\ extraWidth > 0
        THEN [window EXCEPT ![Len(window)].Width = @ + extraWidth]
        ELSE window
  IN [SetColumns([m EXCEPT !.allColumns = allColumns,
                            !.scrollOffset = startCol],
                  visibleColumns)
        EXCEPT !.tableHeight = tableHeight,
               !.maxCols = Len(allColumns)]

adjustLayout(m) ==
  LET tableHeight == Max(m.height - 6, 5)
      availableWidth == m.width - 6
      fitting == CountFitting(m.allColumns, 1, 0, availableWidth)
      visibleCols == IF fitting = 0 THEN 1 ELSE fitting
      allColumns == IF fitting = 0
                    THEN [m.allColumns EXCEPT ![1].Width = availableWidth]
                    ELSE m.allColumns
      over == m.scrollOffset + visibleCols > Len(allColumns)
      endCol == IF over THEN Len(allColumns) ELSE m.scrollOffset + visibleCols
      startCol == IF over THEN Max(endCol - visibleCols, 0) ELSE m.scrollOffset
      window == SubSeq(allColumns, startCol + 1, endCol)
      extraWidth == availableWidth - SumWidths(window)
      visibleColumns ==
        IF Len(window) > 0 /\ extraWidth > 0
        THEN [window EXCEPT ![Len(window)].Width = @ + extraWidth]
        ELSE window
  IN [SetColumns([m EXCEPT !.allColumns = allColumns,
                            !.scrollOffset = startCol],
                  visibleColumns)
        EXCEPT !.tableHeight = tableHeight,
               !.maxCols = Len(allColumns)]

\* Whether a resolver called with this display index gets as far as calling
\* getFilteredConfigs (and so refreshes the sort cache).
ResolverReads(m, displayIndex) ==
  /\ displayIndex >= 0
  /\ displayIndex < Len(m.configIndices)
  /\ m.configIndices[displayIndex + 1] # -1

\* The index into configs (0-based) of the first entry that Equals e, or -1.
FirstEqual(configs, e) ==
  IF \E i \in 1..Len(configs) : Equals(configs[i], e)
  THEN (CHOOSE i \in 1..Len(configs) :
          /\ Equals(configs[i], e)
          /\ \A j \in 1..(i - 1) : ~Equals(configs[j], e)) - 1
  ELSE -1

\* The end of both resolvers: the entry of filteredConfigs at configIndex is
\* looked up in configs.
ResolveIn(m, configIndex, filteredConfigs) ==
  IF configIndex >= Len(filteredConfigs) THEN -1
  ELSE FirstEqual(m.configs, filteredConfigs[configIndex + 1])

getOriginalIndexByDisplayIndex(m, displayIndex) ==
  IF ~ResolverReads(m, displayIndex) THEN -1
  ELSE ResolveIn(m, m.configIndices[displayIndex + 1], FilteredOf(m))

\* getConfigByDisplayIndex returns &m.configs[i]: the model gives i, and -1
\* for nil.
getConfigByDisplayIndex(m, displayIndex) ==
  IF ~ResolverReads(m, displayIndex) THEN -1
  ELSE ResolveIn(m, m.configIndices[displayIndex + 1], FilteredOf(m))

\* The model after either resolver has run.
afterResolve(m, displayIndex) ==
  IF ResolverReads(m, displayIndex) THEN getSortedConfigs(m) ELSE m

\* Whether row i (1-based) of the table shows targetConfig.
ShowsConfig(m, filteredConfigs, targetConfig, i) ==
  /\ m.configIndices[i] # -1
  /\ m.configIndices[i] < Len(filteredConfigs)
  /\ Equals(filteredConfigs[m.configIndices[i] + 1], targetConfig)

\* The loop of findConfigDisplayIndex over the index map.
FirstShowing(m, filteredConfigs, targetConfig) ==
  IF \E i \in 1..Len(m.configIndices) :
       ShowsConfig(m, filteredConfigs, targetConfig, i)
  THEN (CHOOSE i \in 1..Len(m.configIndices) :
          /\ ShowsConfig(m, filteredConfigs, targetConfig, i)
          /\ \A j \in 1..(i - 1) :
               ~ShowsConfig(m, filteredConfigs, targetConfig, j)) - 1
  ELSE -1

findConfigDisplayIndex(m, targetConfig) ==
  FirstShowing(m, FilteredOf(m), targetConfig)

\* The model after findConfigDisplayIndex has run.
afterFind(m) ==
  IF \E i \in 1..Len(m.configIndices) : m.configIndices[i] # -1
  THEN getSortedConfigs(m) ELSE m

(***************************************************************************)
(* commands and keys                                                       *)
(***************************************************************************)

\* A tea.Cmd a handler returns, by the message it produces.
Cmd(kind, message, config) ==
  [kind |-> kind, message |-> message, config |-> config]

NilCmd == Cmd("nil", "", NoEntry)

Quit == Cmd("quit", "", NoEntry)

\* showStatus(msg).  Messages are written without their glyph and without
\* the names and counts formatted into them.
showStatus(msg) == Cmd("status", msg, NoEntry)

\* editor.OpenConfig(config).
OpenConfig(config) == Cmd("open", "", config)

\* A tea.KeyMsg: s is msg.String(); runes tells typed text from a named key.
Key(s) == [s |-> s, runes |-> FALSE]

Runes(s) == [s |-> s, runes |-> TRUE]

\* textinput.New().CharLimit of the edit input and of the search input.
EditCharLimit == 300

SearchCharLimit == 100

\* textinput.Model.Update on a focused input whose cursor is at the end:
\* typed text is appended up to the character limit, backspace deletes the
\* last character and ctrl+u everything before the cursor.
TextInputUpdate(value, msg, charLimit) ==
  IF msg.runes
  THEN LET avail == charLimit - Len(value) IN
       IF avail <= 0 THEN value
       ELSE value \o SubSeq(msg.s, 1, IF Len(msg.s) < avail THEN Len(msg.s) ELSE avail)
  ELSE IF msg.s = "ctrl+u" THEN ""
  ELSE IF msg.s = "backspace"
       THEN (IF value = "" THEN "" ELSE SubSeq(value, 1, Len(value) - 1))
  ELSE value

\* textinput.Model.SetValue: the value is cut at the character limit.
SetValue(value, charLimit) ==
  IF Len(value) > charLimit THEN SubSeq(value, 1, charLimit) ELSE value

\* clamp of the table package.
Clamp(v, low, high) ==
  LET a == IF v > low THEN v ELSE low IN IF a < high THEN a ELSE high

\* table.SetCursor.
SetCursor(m, n) == [m EXCEPT !.cursor = Clamp(n, 0, Len(m.rows) - 1)]

(***************************************************************************)
(* persistence                                                             *)
(***************************************************************************)

\* storage.Save(m.configs): the write replaces the file atomically or fails
\* and leaves it as it was.
Save(m, saveOK) == IF saveOK THEN [m EXCEPT !.disk = m.configs] ELSE m

(***************************************************************************)
(* edit and add                                                            *)
(***************************************************************************)

PlaceholderPath == "~/path/to/file"

loadEditField(m) ==
  IF m.editRow < 0 \/ m.editRow >= Len(m.configs) THEN m
  ELSE LET config == m.configs[m.editRow + 1]
           value == CASE m.editCol = 0 -> config.Name
                      [] m.editCol = 1 -> config.Project
                      [] m.editCol = 2 -> config.Type
                      [] m.editCol = 3 -> config.Path
                      [] m.editCol = 4 -> config.Description
                      [] OTHER -> ""
       IN [m EXCEPT !.textInput = SetValue(value, EditCharLimit)]

cancelEditAlways(m) ==
  updateTable([m EXCEPT !.configs = IF m.mode = ModeAdd
                                    THEN RemoveAt(m.configs, m.editRow + 1)
                                    ELSE m.configs,
                        !.cacheValid = FALSE,
                        !.mode = ModeNormal, !.editRow = -1, !.editCol = -1,
                        !.textInput = ""])

cancelEdit(m) ==
  LET removes == /\ m.mode = ModeAdd
                 /\ m.editRow >= 0 /\ m.editRow < Len(m.configs)
                 /\ m.configs[m.editRow + 1].Path = PlaceholderPath
      m1 == IF removes
            THEN [m EXCEPT !.configs = RemoveAt(m.configs, m.editRow + 1),
                           !.cacheValid = FALSE]
            ELSE m
  IN updateTable([m1 EXCEPT !.mode = ModeNormal, !.editRow = -1,
                            !.editCol = -1, !.textInput = ""])

\* The result of saveEdit: the model it leaves and the error it returns
\* ("" for nil).
Saved(m, err) == [m |-> m, err |-> err]

saveEditWriteKeepsCache(m, saveOK) ==
  IF ~saveOK THEN Saved(Save(m, FALSE), "write failed")
  ELSE Saved(updateTable(Save(m, TRUE)), "")

\* The end of saveEdit, from the call of storage.Save on.
saveEditWrite(m, saveOK) ==
  IF ~saveOK THEN Saved(Save(m, FALSE), "write failed")
  ELSE Saved(updateTable([Save(m, TRUE) EXCEPT !.cacheValid = FALSE]), "")

\* The duplicate check of saveEdit for the expanded path.
AlreadyRegistered(m, expandedPath, dup) ==
  /\ m.mode = ModeAdd \/ m.configs[m.editRow + 1].Path # expandedPath
  /\ dup # 0
  /\ ~Equals(m.configs[dup], m.configs[m.editRow + 1])

\* The error the switch of saveEdit returns for the trimmed value, "" when it
\* assigns the field.
saveEditError(m, value) ==
  CASE m.editCol = 0 /\ value = "" -> "name cannot be empty"
    [] m.editCol = 3 /\ value = "" -> "path cannot be empty"
    [] m.editCol = 3 /\ value # ""
       /\ AlreadyRegistered(m, ExpandPath(value),
                            FindDuplicates(m.configs, ExpandPath(value))) ->
         "file already registered"
    [] OTHER -> ""

\* The entry the switch of saveEdit leaves when it assigns the trimmed value.
saveEditAssign(config, editCol, value) ==
  CASE editCol = 0 -> [config EXCEPT !.Name = value]
    [] editCol = 1 -> [config EXCEPT !.Project = value]
    [] editCol = 2 -> [config EXCEPT !.Type = value]
    [] editCol = 3 ->
         [config EXCEPT !.Path = ExpandPath(value),
                        !.Type = IF config.Type = "" \/ config.Type = "txt"
                                 THEN DetectFileType(ExpandPath(value))
                                 ELSE config.Type]
    [] editCol = 4 -> [config EXCEPT !.Description = value]
    [] OTHER -> config

saveEditAssignFirst(m, saveOK) ==
  IF m.editRow < 0 \/ m.editRow >= Len(m.configs)
  THEN Saved(m, "invalid edit row")
  ELSE With(saveEditError(m, TrimSpace(m.textInput)),
            LAMBDA err :
              IF err # ""
              THEN Saved([m EXCEPT !.configs[m.editRow + 1] =
                            saveEditAssign(@, m.editCol, TrimSpace(m.textInput))],
                         err)
              ELSE saveEditWrite(
                     [m EXCEPT !.configs[m.editRow + 1] =
                        saveEditAssign(@, m.editCol, TrimSpace(m.textInput))],
                     saveOK))

saveEdit(m, saveOK) ==
  IF m.editRow < 0 \/ m.editRow >= Len(m.configs)
  THEN Saved(m, "invalid edit row")
  ELSE With(saveEditError(m, TrimSpace(m.textInput)),
            LAMBDA err :
              IF err # "" THEN Saved(m, err)
              ELSE saveEditWrite(
                     [m EXCEPT !.configs[m.editRow + 1] =
                        saveEditAssign(@, m.editCol, TrimSpace(m.textInput))],
                     saveOK))

startEditAnyRow(m) ==
  IF Len(m.configs) = 0
  THEN [m EXCEPT !.cmd = showStatus("No files to edit")]
  ELSE With(getOriginalIndexByDisplayIndex(m, m.cursor),
            LAMBDA editRow :
              [loadEditField([afterResolve(m, m.cursor) EXCEPT
                                !.editRow = editRow,
                                !.mode = ModeEdit,
                                !.editCol = 0])
                 EXCEPT !.cmd = NilCmd])

\* startEdit is called as "return m, m.startEdit()": the build evaluates the
\* call before it copies m, so the changes startEdit makes are returned (the
\* same holds for addNewConfig).
startEdit(m) ==
  IF Len(m.configs) = 0
  THEN [m EXCEPT !.cmd = showStatus("No files to edit")]
  ELSE With(getOriginalIndexByDisplayIndex(m, m.cursor),
            LAMBDA editRow :
              IF editRow = -1
              THEN [afterResolve(m, m.cursor) EXCEPT
                      !.editRow = -1,
                      !.cmd = showStatus("Invalid selection")]
              ELSE [loadEditField([afterResolve(m, m.cursor) EXCEPT
                                     !.editRow = editRow,
                                     !.mode = ModeEdit,
                                     !.editCol = 0])
                      EXCEPT !.cmd = NilCmd])

NewConfig == Entry("New File", PlaceholderPath, "txt", "", "File description", 0)

\* The end of addNewConfig: the cursor moves to the row of the new entry.
selectNewConfig(m, displayIndex) ==
  [(IF displayIndex # -1 THEN SetCursor(m, displayIndex) ELSE m)
     EXCEPT !.cmd = showStatus("Adding new file")]

addNewConfig(m) ==
  With(updateTable(loadEditField(
         [m EXCEPT !.configs = Append(m.configs, NewConfig),
                   !.cacheValid = FALSE,
                   !.mode = ModeAdd,
                   !.editRow = Len(m.configs),
                   !.editCol = 0])),
       LAMBDA m1 :
         selectNewConfig(afterFind(m1), findConfigDisplayIndex(m1, NewConfig)))

(***************************************************************************)
(* Update: the handlers of each mode                                       *)
(***************************************************************************)

updateHelpToSearch(m, msg) == [m EXCEPT !.mode = ModeSearch, !.cmd = NilCmd]

updateHelp(m, msg) == [m EXCEPT !.mode = ModeNormal, !.cmd = NilCmd]

updateDeleteConfirmAbortAny(m, msg, saveOK) ==
  IF msg.s = "y" /\ saveOK /\ m.deleteIndex >= 0
     /\ m.deleteIndex < Len(m.configs)
  THEN [updateTable([m EXCEPT !.configs = RemoveAt(m.configs, m.deleteIndex + 1),
                              !.disk = RemoveAt(m.configs, m.deleteIndex + 1),
                              !.cacheValid = FALSE])
          EXCEPT !.mode = ModeNormal, !.deleteIndex = -1,
                 !.cmd = showStatus("Deleted")]
  ELSE [m EXCEPT !.mode = ModeNormal, !.deleteIndex = -1,
                 !.cmd = showStatus("Deletion cancelled")]

updateDeleteConfirm(m, msg, saveOK) ==
  CASE msg.s \in {"y", "Y"} ->
         IF m.deleteIndex >= 0 /\ m.deleteIndex < Len(m.configs)
         THEN IF ~saveOK
              THEN [Save([m EXCEPT !.configs =
                            RemoveAt(m.configs, m.deleteIndex + 1)], FALSE)
                      EXCEPT !.mode = ModeNormal,
                             !.cmd = showStatus("Failed to save: write failed")]
              ELSE [updateTable(
                      [Save([m EXCEPT !.configs =
                               RemoveAt(m.configs, m.deleteIndex + 1)], TRUE)
                         EXCEPT !.cacheValid = FALSE])
                      EXCEPT !.mode = ModeNormal,
                             !.deleteIndex = -1,
                             !.cmd = showStatus("Deleted")]
         ELSE [m EXCEPT !.mode = ModeNormal, !.deleteIndex = -1,
                        !.cmd = NilCmd]
    [] msg.s \in {"n", "N", "esc"} ->
         [m EXCEPT !.mode = ModeNormal, !.deleteIndex = -1,
                   !.cmd = showStatus("Deletion cancelled")]
    [] OTHER -> [m EXCEPT !.cmd = NilCmd]

searchEditedOnConfirm(m, msg) ==
  CASE msg.s = "esc" ->
         [m EXCEPT !.mode = ModeNormal, !.searchQuery = "",
                   !.fuzzyMode = FALSE, !.searchInput = "",
                   !.cacheValid = FALSE]
    [] msg.s = "enter" ->
         [m EXCEPT !.mode = ModeNormal, !.searchQuery = m.searchInput,
                   !.cacheValid = FALSE]
    [] OTHER ->
         [m EXCEPT
            !.searchInput = TextInputUpdate(m.searchInput, msg, SearchCharLimit),
            !.cacheValid = FALSE]

\* The model updateSearch hands to updateTable.
searchEdited(m, msg) ==
  CASE msg.s = "esc" ->
         [m EXCEPT !.mode = ModeNormal, !.searchQuery = "",
                   !.fuzzyMode = FALSE, !.searchInput = "",
                   !.cacheValid = FALSE]
    [] msg.s = "enter" ->
         [m EXCEPT !.mode = ModeNormal, !.searchQuery = m.searchInput,
                   !.cacheValid = FALSE]
    [] OTHER ->
         [m EXCEPT
            !.searchInput = TextInputUpdate(m.searchInput, msg, SearchCharLimit),
            !.searchQuery = TextInputUpdate(m.searchInput, msg, SearchCharLimit),
            !.cacheValid = FALSE]

\* Every case of updateSearch ends in updateTable; the cases differ in the
\* command they return.
updateSearch(m, msg) ==
  [updateTable(searchEdited(m, msg)) EXCEPT
     !.cmd = CASE msg.s = "esc" -> showStatus("Search cleared")
               [] msg.s = "enter" /\ m.searchInput # "" ->
                    showStatus("Found matches")
               [] OTHER -> NilCmd]

afterSaveEditMovesAlways(r, msg) ==
  IF r.err # ""
  THEN [r.m EXCEPT !.cmd = showStatus("Failed to save: " \o r.err),
                   !.editCol = IF msg.s = "tab" THEN (@ + 1) % 5
                               ELSE IF msg.s = "shift+tab" THEN (@ - 1 + 5) % 5
                               ELSE @]
  ELSE CASE msg.s = "enter" ->
              With(cancelEdit(r.m),
                   LAMBDA m1 :
                     [m1 EXCEPT !.cmd = IF m1.mode = ModeAdd
                                        THEN showStatus("File added")
                                        ELSE showStatus("File updated")])
         [] msg.s = "tab" ->
              [loadEditField([r.m EXCEPT !.editCol = (r.m.editCol + 1) % 5])
                 EXCEPT !.cmd = NilCmd]
         [] OTHER ->
              [loadEditField([r.m EXCEPT !.editCol = (r.m.editCol - 1 + 5) % 5])
                 EXCEPT !.cmd = NilCmd]

\* What updateEdit does after a saveEdit that returned r.
afterSaveEdit(r, msg) ==
  IF r.err # ""
  THEN [r.m EXCEPT !.cmd = showStatus("Failed to save: " \o r.err)]
  ELSE CASE msg.s = "enter" ->
              With(cancelEdit(r.m),
                   LAMBDA m1 :
                     [m1 EXCEPT !.cmd = IF m1.mode = ModeAdd
                                        THEN showStatus("File added")
                                        ELSE showStatus("File updated")])
         [] msg.s = "tab" ->
              [loadEditField([r.m EXCEPT !.editCol = (r.m.editCol + 1) % 5])
                 EXCEPT !.cmd = NilCmd]
         [] OTHER ->
              [loadEditField([r.m EXCEPT !.editCol = (r.m.editCol - 1 + 5) % 5])
                 EXCEPT !.cmd = NilCmd]

updateEditCancelCommits(m, msg, saveOK) ==
  CASE msg.s = "esc" ->
         [cancelEdit([m EXCEPT !.configs[m.editRow + 1] =
                        saveEditAssign(@, m.editCol, TrimSpace(m.textInput))])
            EXCEPT !.cmd = NilCmd]
    [] msg.s \in {"enter", "tab", "shift+tab"} ->
         afterSaveEdit(saveEdit(m, saveOK), msg)
    [] OTHER ->
         [m EXCEPT !.textInput = TextInputUpdate(m.textInput, msg, EditCharLimit),
                   !.cmd = NilCmd]

\* The enter, tab and shift+tab cases all start with saveEdit.
updateEdit(m, msg, saveOK) ==
  CASE msg.s = "esc" -> [cancelEdit(m) EXCEPT !.cmd = NilCmd]
    [] msg.s \in {"enter", "tab", "shift+tab"} ->
         afterSaveEdit(saveEdit(m, saveOK), msg)
    [] OTHER ->
         [m EXCEPT !.textInput = TextInputUpdate(m.textInput, msg, EditCharLimit),
                   !.cmd = NilCmd]

confirmDeleteByRow(m, originalIndex) ==
  IF originalIndex = -1 THEN [m EXCEPT !.cmd = NilCmd]
  ELSE [m EXCEPT !.mode = ModeConfirmDelete,
                 !.deleteIndex = m.cursor,
                 !.cmd = showStatus("Delete?")]

\* The "d" case of updateNormal once the resolver has returned originalIndex.
confirmDelete(m, originalIndex) ==
  IF originalIndex = -1 THEN [m EXCEPT !.cmd = NilCmd]
  ELSE [m EXCEPT !.mode = ModeConfirmDelete,
                 !.deleteIndex = originalIndex,
                 !.cmd = showStatus("Delete?")]

\* The model with the clock read and the first entry that Equals entry i
\* (1-based) stamped with it.
touch(m, i) ==
  [m EXCEPT !.configs[FirstEqual(m.configs, m.configs[i]) + 1].LastOpened =
              m.now + 1,
            !.now = m.now + 1]

\* The open case of updateNormal once the resolver has returned config, the
\* index (0-based) of the entry it points to, or -1 for nil.  The result of
\* storage.Save is dropped, and the table is not rebuilt.
openConfig(m, config, saveOK) ==
  IF config = -1 THEN [m EXCEPT !.cmd = NilCmd]
  ELSE [Save(touch(m, config + 1), saveOK) EXCEPT
          !.cacheValid = FALSE,
          !.cmd = OpenConfig(touch(m, config + 1).configs[config + 1])]

\* The height of the header the table draws above its rows: table.Height()
\* is the height given to SetHeight less this.
TableHeaderHeight == 2

\* m.table.Update(msg) for a key message: the table is focused and has the
\* key map of table.New.  A page is the height of the viewport, half a page
\* is half of it (the height is positive); MoveUp and MoveDown clamp the
\* cursor to the rows.
tableUpdate(m, msg) ==
  LET page == m.tableHeight - TableHeaderHeight IN
  CASE msg.s \in {"up", "k"} -> SetCursor(m, m.cursor - 1)
    [] msg.s \in {"down", "j"} -> SetCursor(m, m.cursor + 1)
    [] msg.s \in {"b", "pgup"} -> SetCursor(m, m.cursor - page)
    [] msg.s \in {"f", "pgdown", " "} -> SetCursor(m, m.cursor + page)
    [] msg.s \in {"u", "ctrl+u"} -> SetCursor(m, m.cursor - (page \div 2))
    [] msg.s \in {"d", "ctrl+d"} -> SetCursor(m, m.cursor + (page \div 2))
    [] msg.s \in {"home", "g"} -> SetCursor(m, 0)
    [] msg.s \in {"end", "G"} -> SetCursor(m, Len(m.rows) - 1)
    [] OTHER -> m

updateNormal(m, msg, saveOK, loadOK) ==
  CASE msg.s \in {"q", "ctrl+c"} -> [m EXCEPT !.cmd = Quit]
    [] msg.s = "?" -> [m EXCEPT !.mode = ModeHelp, !.cmd = NilCmd]
    [] msg.s = "/" ->
         [m EXCEPT !.mode = ModeSearch, !.fuzzyMode = FALSE,
                   !.searchInput = SetValue(m.searchQuery, SearchCharLimit),
                   !.cmd = showStatus("Search mode")]
    [] msg.s = "ctrl+f" ->
         [m EXCEPT !.mode = ModeSearch, !.fuzzyMode = TRUE,
                   !.searchInput = SetValue(m.searchQuery, SearchCharLimit),
                   !.cmd = showStatus("Fuzzy find mode")]
    [] msg.s = "s" ->
         [updateTable([m EXCEPT !.sortByRecent = ~m.sortByRecent,
                                !.cacheValid = FALSE])
            EXCEPT !.cmd = IF ~m.sortByRecent
                           THEN showStatus("Sorted by recently opened")
                           ELSE showStatus("Sorted by project")]
    [] msg.s = "e" -> startEdit(m)
    [] msg.s \in {"n", "a"} -> addNewConfig(m)
    [] msg.s \in {"d", "delete"} ->
         IF Len(m.configs) > 0
         THEN confirmDelete(afterResolve(m, m.cursor),
                            getOriginalIndexByDisplayIndex(m, m.cursor))
         ELSE [m EXCEPT !.cmd = NilCmd]
    [] msg.s \in {" ", "enter"} ->
         IF Len(m.configs) > 0
         THEN openConfig(afterResolve(m, m.cursor),
                         getConfigByDisplayIndex(m, m.cursor), saveOK)
         ELSE [m EXCEPT !.cmd = NilCmd]
    [] msg.s = "r" ->
         IF ~loadOK
         THEN [m EXCEPT !.cmd = showStatus("Failed to reload")]
         ELSE [updateTable([m EXCEPT !.configs = m.disk, !.cacheValid = FALSE])
                 EXCEPT !.cmd = showStatus("Refreshed")]
    [] msg.s \in {"left", "h"} ->
         IF m.scrollOffset > 0
         THEN [updateTable(adjustLayout([m EXCEPT !.scrollOffset = @ - 1]))
                 EXCEPT !.cmd = NilCmd]
         ELSE [m EXCEPT !.cmd = NilCmd]
    [] msg.s \in {"right", "l"} ->
         LET maxOffset == Max(m.maxCols - Len(m.columns), 0) IN
         IF m.scrollOffset < maxOffset
         THEN [updateTable(adjustLayout([m EXCEPT !.scrollOffset = @ + 1]))
                 EXCEPT !.cmd = NilCmd]
         ELSE [m EXCEPT !.cmd = NilCmd]
    [] msg.s \in {"k", "up"} -> [tableUpdate(m, msg) EXCEPT !.cmd = NilCmd]
    [] msg.s \in {"j", "down"} -> [tableUpdate(m, msg) EXCEPT !.cmd = NilCmd]
    [] msg.s \in {"g", "home"} -> [SetCursor(m, 0) EXCEPT !.cmd = NilCmd]
    [] msg.s \in {"G", "end"} ->
         [SetCursor(m, Len(m.rows) - 1) EXCEPT !.cmd = NilCmd]
    [] msg.s \in {"pageup", "ctrl+u"} ->
         LET pageSize == m.tableHeight - TableHeaderHeight
             newCursor == Max(m.cursor - pageSize, 0)
         IN [SetCursor(m, newCursor) EXCEPT !.cmd = NilCmd]
    [] msg.s \in {"pagedown", "ctrl+d"} ->
         LET pageSize == m.tableHeight - TableHeaderHeight
             maxCursor == Len(m.rows) - 1
             newCursor == IF m.cursor + pageSize > maxCursor
                          THEN maxCursor ELSE m.cursor + pageSize
         IN [SetCursor(m, newCursor) EXCEPT !.cmd = NilCmd]
    [] OTHER -> [tableUpdate(m, msg) EXCEPT !.cmd = NilCmd]

UpdateKeyHelpFirst(m, msg, saveOK, loadOK) ==
  CASE m.mode = ModeHelp -> updateHelp(m, msg)
    [] msg.s = "?" -> [m EXCEPT !.mode = ModeHelp, !.cmd = NilCmd]
    [] m.mode \in {ModeEdit, ModeAdd} -> updateEdit(m, msg, saveOK)
    [] m.mode = ModeSearch -> updateSearch(m, msg)
    [] m.mode = ModeConfirmDelete -> updateDeleteConfirm(m, msg, saveOK)
    [] OTHER -> updateNormal(m, msg, saveOK, loadOK)

UpdateKeyQuitFirst(m, msg, saveOK, loadOK) ==
  CASE msg.s \in {"q", "ctrl+c"} -> [m EXCEPT !.cmd = Quit]
    [] m.mode = ModeHelp -> updateHelp(m, msg)
    [] m.mode \in {ModeEdit, ModeAdd} -> updateEdit(m, msg, saveOK)
    [] m.mode = ModeSearch -> updateSearch(m, msg)
    [] m.mode = ModeConfirmDelete -> updateDeleteConfirm(m, msg, saveOK)
    [] OTHER -> updateNormal(m, msg, saveOK, loadOK)

\* The tea.KeyMsg case of Update.
UpdateKey(m, msg, saveOK, loadOK) ==
  CASE m.mode = ModeHelp -> updateHelp(m, msg)
    [] m.mode \in {ModeEdit, ModeAdd} -> updateEdit(m, msg, saveOK)
    [] m.mode = ModeSearch -> updateSearch(m, msg)
    [] m.mode = ModeConfirmDelete -> updateDeleteConfirm(m, msg, saveOK)
    [] OTHER -> updateNormal(m, msg, saveOK, loadOK)

\* The tea.WindowSizeMsg case of Update.
UpdateWindowSize(m, width, height) ==
  [updateTable(adjustLayout([m EXCEPT !.width = width, !.height = height]))
     EXCEPT !.cmd = NilCmd]

\* The statusMsg case of Update.  statusExpiry, which hides the message
\* from View three seconds later, is wall-clock time and is left out.
UpdateStatus(m, message) ==
  [m EXCEPT !.statusMsg = message, !.cmd = NilCmd]

\* editor.HandleEditorFinished, and what Update returns for it.
UpdateEditorFinished(m, name, err) ==
  [m EXCEPT !.cmd = IF err # "" THEN showStatus("Failed to open")
                    ELSE showStatus("Opened")]

\* The end of Update, for a message that is neither an editorFinishedMsg,
\* a statusMsg, a tea.WindowSizeMsg nor a tea.KeyMsg: in Normal mode it goes
\* to the table, which reads keys only.
UpdateOther(m) == [m EXCEPT !.cmd = NilCmd]

(***************************************************************************)
(* the state machine                                                       *)
(***************************************************************************)

\* The bound of the model: the number of key presses and resizes of a run.
MaxSteps == 5

\* The bound of the model: the number of commands that run at a time.
MaxInFlight == 1

\* The registry the program starts from.
InitConfigs ==
  <<Entry("api", "/a.yml", "yaml", "Zeta", "", 0),
    Entry("Doc", "/a", "txt", "", "", 0)>>

\* What the user types into the edit input and into the search input.
EditTokens == {".yml", " "}

SearchTokens == {"ya", "ay"}

\* The window sizes the terminal takes: the size of the start, at which three
\* columns fit, and a size at which all five fit.
WindowSizes == {<<100, 24>>, <<136, 24>>}

AllColumns ==
  <<[Title |-> "Name", Width |-> 25],
    [Title |-> "Project", Width |-> 20],
    [Title |-> "Type", Width |-> 10],
    [Title |-> "Path", Width |-> 40],
    [Title |-> "Description", Width |-> 30]>>

VARIABLES
  configs,
  disk,
  rows,
  shown,
  cursor,
  columns,
  tableHeight,
  width,
  height,
  mode,
  editRow,
  editCol,
  textInput,
  searchInput,
  searchQuery,
  fuzzyMode,
  deleteIndex,
 
  scrollOffset,
  maxCols,
  configIndices,
  allColumns,
  sortedCache,
  cacheValid,
  sortCalls,
  sortByRecent,
  cmd,
  inflight,
  running,
  statusMsg,
  now,
  steps

vars ==
  <<configs, disk, rows, shown, cursor, columns, tableHeight, width,
    height, mode, editRow, editCol, textInput, searchInput, searchQuery, fuzzyMode,
    deleteIndex, scrollOffset, maxCols, configIndices, allColumns, sortedCache,
    cacheValid, sortCalls, sortByRecent, cmd, inflight, running, statusMsg,
    now, steps>>

\* The model struct (and its environment) in the current state.
M ==
  [configs |-> configs,
   disk |-> disk,
   rows |-> rows,
   shown |-> shown,
   cursor |-> cursor,
   columns |-> columns,
   tableHeight |-> tableHeight,
   width |-> width,
   height |-> height,
   mode |-> mode,
   editRow |-> editRow,
   editCol |-> editCol,
   textInput |-> textInput,
   searchInput |-> searchInput,
   searchQuery |-> searchQuery,
   fuzzyMode |-> fuzzyMode,
   deleteIndex |-> deleteIndex,
   scrollOffset |-> scrollOffset,
   maxCols |-> maxCols,
   configIndices |-> configIndices,
   allColumns |-> allColumns,
   sortedCache |-> sortedCache,
   sortCalls |-> 0,
   cacheValid |-> cacheValid,
   sortByRecent |-> sortByRecent,
   cmd |-> cmd,
   inflight |-> inflight,
   running |-> running,
   statusMsg |-> statusMsg,
   now |-> now,
   steps |-> steps]

Apply(m) ==
  /\ configs' = m.configs
  /\ disk' = m.disk
  /\ rows' = m.rows
  /\ shown' = m.shown
  /\ cursor' = m.cursor
  /\ columns' = m.columns
  /\ tableHeight' = m.tableHeight
  /\ width' = m.width
  /\ height' = m.height
  /\ mode' = m.mode
  /\ editRow' = m.editRow
  /\ editCol' = m.editCol
  /\ textInput' = m.textInput
  /\ searchInput' = m.searchInput
  /\ searchQuery' = m.searchQuery
  /\ fuzzyMode' = m.fuzzyMode
  /\ deleteIndex' = m.deleteIndex
  /\ scrollOffset' = m.scrollOffset
  /\ maxCols' = m.maxCols
  /\ configIndices' = m.configIndices
  /\ allColumns' = m.allColumns
  /\ sortedCache' = m.sortedCache
  /\ sortCalls' = m.sortCalls
  /\ cacheValid' = m.cacheValid
  /\ sortByRecent' = m.sortByRecent
  /\ cmd' = m.cmd
  /\ inflight' = m.inflight
  /\ running' = m.running
  /\ statusMsg' = m.statusMsg
  /\ now' = m.now
  /\ steps' = m.steps

\* The state is the model m.
Is(m) ==
  /\ configs = m.configs
  /\ disk = m.disk
  /\ rows = m.rows
  /\ shown = m.shown
  /\ cursor = m.cursor
  /\ columns = m.columns
  /\ tableHeight = m.tableHeight
  /\ width = m.width
  /\ height = m.height
  /\ mode = m.mode
  /\ editRow = m.editRow
  /\ editCol = m.editCol
  /\ textInput = m.textInput
  /\ searchInput = m.searchInput
  /\ searchQuery = m.searchQuery
  /\ fuzzyMode = m.fuzzyMode
  /\ deleteIndex = m.deleteIndex
  /\ scrollOffset = m.scrollOffset
  /\ maxCols = m.maxCols
  /\ configIndices = m.configIndices
  /\ allColumns = m.allColumns
  /\ sortedCache = m.sortedCache
  /\ sortCalls = m.sortCalls
  /\ cacheValid = m.cacheValid
  /\ sortByRecent = m.sortByRecent
  /\ cmd = m.cmd
  /\ inflight = m.inflight
  /\ running = m.running
  /\ statusMsg = m.statusMsg
  /\ now = m.now
  /\ steps = m.steps

\* The model main() builds before it lays out and fills the table.
NewModel(stored) ==
  [configs |-> stored, disk |-> stored, rows |-> <<>>, shown |-> <<>>,
   cursor |-> 0, columns |-> SubSeq(AllColumns, 1, 4), tableHeight |-> 10,
   width |-> 100, height |-> 24, mode |-> ModeNormal, editRow |-> -1,
   editCol |-> -1, textInput |-> "", searchInput |-> "", searchQuery |-> "",
   fuzzyMode |-> FALSE, deleteIndex |-> -1,
   scrollOffset |-> 0, maxCols |-> 5, configIndices |-> <<>>,
   allColumns |-> AllColumns, sortedCache |-> <<>>, cacheValid |-> FALSE,
   sortCalls |-> 0,
   sortByRecent |-> FALSE, cmd |-> NilCmd, inflight |-> EmptyBag,
   running |-> TRUE,
   statusMsg |-> "", now |-> 0, steps |-> 0]

Init ==
  Is(updateTable(adjustLayout(NewModel(InitConfigs))))

\* The runtime starts the command Update returned with model m: it runs on
\* a goroutine of its own, and its message arrives later.
Issued(m) ==
  IF m.cmd.kind = "nil" THEN m
  ELSE [m EXCEPT !.inflight = @ (+) SetToBag({m.cmd})]

\* The model Update is called with when the message of command c arrives.
Received(c) == [M EXCEPT !.inflight = @ (-) SetToBag({c})]

\* The commands are within their bound in model m.
InFlightBounded(m) == BagCardinality(m.inflight) <= MaxInFlight

\* What the program is left with when Update has run to model m.  Update
\* returned: m is the model, and the command returned with it is started.
\* Update panicked: the model is the one Update was called with, but for
\* the widths of allColumns, which adjustLayout writes into the array the
\* two models share, and the event loop has ended.
Outcome(m) ==
  IF m.running THEN Issued(m)
  ELSE [M EXCEPT !.running = FALSE,
                 !.allColumns = m.allColumns,
                 !.steps = m.steps]

\* A key press or a resize is handled: Update runs to model m.
Handled(m) == Apply(Outcome([m EXCEPT !.steps = steps + 1]))

\* The same, in the runs in which the commands stay within their bound.
Taken(m) == InFlightBounded(Issued(m)) /\ Handled(m)

\* The event loop takes user input: it has not received the message of
\* tea.Quit, and the run is within its bound.
Running == running /\ steps < MaxSteps

\* The keys of Normal mode that neither read nor write the registry file:
\* one key of each case of updateNormal, the keys it leaves to the table
\* (pgup and pgdown are the names of the page keys), and a key neither
\* names.
NormalKeys ==
  {Runes("q"), Runes("?"), Runes("/"), Key("ctrl+f"), Runes("s"), Runes("e"),
   Runes("n"), Runes("d"), Key("left"), Key("right"), Key("up"), Key("down"),
   Key("home"), Key("end"), Key("ctrl+u"), Key("ctrl+d"), Key("pgdown"),
   Runes("b"), Runes("u"), Runes("x")}

\* A key press in Normal mode.
NormalKey ==
  /\ Running
  /\ mode = ModeNormal
  /\ \E msg \in NormalKeys : Taken(UpdateKey(M, msg, TRUE, TRUE))

\* The keys that open the record under the cursor.
OpenKeys == {Runes(" "), Key("enter")}

\* The open key in Normal mode; the write of the registry succeeds or fails.
OpenKey ==
  /\ Running
  /\ mode = ModeNormal
  /\ \E msg \in OpenKeys, saveOK \in BOOLEAN :
       Taken(UpdateKey(M, msg, saveOK, TRUE))

\* The refresh key in Normal mode; the read of the registry succeeds or fails.
RefreshKey ==
  /\ Running
  /\ mode = ModeNormal
  /\ \E loadOK \in BOOLEAN : Taken(UpdateKey(M, Runes("r"), TRUE, loadOK))

\* The help key and the quit keys: they are pressed in every mode.
GlobalKeys == {Runes("?"), Runes("q"), Key("ctrl+c")}

\* The keys pressed on the help screen.
HelpKeys == {Key("esc")} \cup GlobalKeys

\* A key press on the help screen.
HelpKey ==
  /\ Running
  /\ mode = ModeHelp
  /\ \E msg \in HelpKeys : Taken(UpdateKey(M, msg, TRUE, TRUE))

\* The keys pressed in the delete confirmation: those updateDeleteConfirm
\* names, and some it does not.
DeleteConfirmKeys ==
  {Runes("y"), Runes("Y"), Runes("n"), Runes("N"), Key("esc"), Key("enter")}
  \cup GlobalKeys

\* A key press in the delete confirmation.
DeleteConfirmKey ==
  /\ Running
  /\ mode = ModeConfirmDelete
  /\ \E msg \in DeleteConfirmKeys, saveOK \in BOOLEAN :
       Taken(UpdateKey(M, msg, saveOK, TRUE))

\* The keys that change the text of an input.
TypingKeys(tokens) == {Runes(t) : t \in tokens} \cup {Key("ctrl+u")}

\* A key press in Search mode.
SearchKey ==
  /\ Running
  /\ mode = ModeSearch
  /\ \E msg \in {Key("esc"), Key("enter")} \cup TypingKeys(SearchTokens)
                \cup GlobalKeys :
       Taken(UpdateKey(M, msg, TRUE, TRUE))

\* A key press in Edit or Add mode.
EditKey ==
  /\ Running
  /\ mode \in {ModeEdit, ModeAdd}
  /\ \E msg \in {Key("esc"), Key("enter"), Key("tab"), Key("shift+tab")}
                \cup TypingKeys(EditTokens) \cup GlobalKeys,
        saveOK \in BOOLEAN :
       Taken(UpdateKey(M, msg, saveOK, TRUE))

\* The terminal is resized.
WindowSize ==
  /\ Running
  /\ \E size \in WindowSizes : Taken(UpdateWindowSize(M, size[1], size[2]))

\* The message of a status command that is running arrives.
StatusDelivered ==
  /\ running
  /\ \E c \in BagToSet(inflight) :
       /\ c.kind = "status"
       /\ Apply(Issued(UpdateStatus(Received(c), c.message)))

\* An editor command that is running completes and its message arrives.
\* The file is missing, no editor is installed, or a background editor is
\* started or fails to start: the message is an editorFinishedMsg.  A
\* terminal editor is found: the message is the tea.Cmd that
\* tea.ExecProcess returned, which is not an editorFinishedMsg.
EditorFinished ==
  /\ running
  /\ \E c \in BagToSet(inflight) :
       /\ c.kind = "open"
       /\ \/ \E err \in (IF FileExists(c.config.Path)
                         THEN {"", "no suitable editor found", "start failed"}
                         ELSE {"file not found"}) :
               Apply(Issued(UpdateEditorFinished(Received(c), c.config.Name,
                                                 err)))
          \/ /\ FileExists(c.config.Path)
             /\ Apply(Issued(UpdateOther(Received(c))))

\* The message of tea.Quit arrives: the event loop returns, and the
\* messages of the commands still running are not received.
QuitDelivered ==
  /\ running
  /\ BagIn(Quit, inflight)
  /\ Apply([Received(Quit) EXCEPT !.running = FALSE])

Next ==
  \/ NormalKey
  \/ OpenKey
  \/ RefreshKey
  \/ HelpKey
  \/ DeleteConfirmKey
  \/ SearchKey
  \/ EditKey
  \/ WindowSize
  \/ StatusDelivered
  \/ EditorFinished
  \/ QuitDelivered

Spec == Init /\ [][Next]_vars

(***************************************************************************)
(* sorting and projection over a range of registries                       *)
(***************************************************************************)

\* The bound of SortSpec: the number of key presses of a run.
MaxSortSteps == 3

\* The names and the projects of the records of the registries SortSpec
\* starts from.
SortNames == {"a", "B", "c"}

SortProjects == {"alpha", "Alpha", "", "Zeta"}

\* The registries main() may load: up to three records of pairwise distinct
\* names (and paths), in every order, with every choice of projects.
Stores ==
  UNION {{[i \in 1..n |-> Entry(names[i], "/" \o names[i], "txt",
                                projects[i], "", 0)] :
            names \in {f \in [1..n -> SortNames] :
                         \A i, j \in 1..n : i # j => f[i] # f[j]},
            projects \in [1..n -> SortProjects]} :
         n \in 0..Cardinality(SortNames)}

\* What the user types into the search input in SortSpec.
SortTokens == {"al", "c"}

SortInit ==
  \E stored \in Stores : Is(updateTable(adjustLayout(NewModel(stored))))

SortRunning == steps < MaxSortSteps

\* The sort key, or a key that starts a search, in Normal mode.
SortKey ==
  /\ SortRunning
  /\ mode = ModeNormal
  /\ \E msg \in {Runes("s"), Runes("/"), Key("ctrl+f")} :
       Handled(UpdateKey(M, msg, TRUE, TRUE))

\* A key press in Search mode.
SortSearchKey ==
  /\ SortRunning
  /\ mode = ModeSearch
  /\ \E msg \in {Key("esc"), Key("enter")} \cup TypingKeys(SortTokens) :
       Handled(UpdateKey(M, msg, TRUE, TRUE))

SortNext ==
  \/ SortKey
  \/ SortSearchKey

SortSpec == SortInit /\ [][SortNext]_vars

(***************************************************************************)
(* searching over a range of registries and queries                        *)
(***************************************************************************)

\* The bound of MatchSpec: the number of key presses of a run.
MaxMatchSteps == 3

\* The records of the registries MatchSpec starts from.
MatchRecords ==
  {Entry("docker-compose.yml", "/a", "yaml", "", "", 0),
   Entry("readme.md", "/b", "dc", "", "", 0),
   Entry("Notes", "/c", "txt", "D-C", "", 0)}

\* The registries main() may load: one to three of these records, in every
\* order.
MatchStores ==
  UNION {{s \in [1..n -> MatchRecords] :
            \A i, j \in 1..n : i # j => s[i] # s[j]} :
         n \in 1..Cardinality(MatchRecords)}

\* What the user types into the search input in MatchSpec.
MatchTokens == {"d", "c", "D"}

MatchInit ==
  \E stored \in MatchStores : Is(updateTable(adjustLayout(NewModel(stored))))

\* A key press: in Normal mode a key that starts a search, in Search mode a
\* key of the search input.
MatchKey ==
  /\ steps < MaxMatchSteps
  /\ mode \in {ModeNormal, ModeSearch}
  /\ \E msg \in (IF mode = ModeNormal THEN {Runes("/"), Key("ctrl+f")}
                 ELSE {Key("esc"), Key("enter")} \cup TypingKeys(MatchTokens)) :
       Handled(UpdateKey(M, msg, TRUE, TRUE))

MatchSpec == MatchInit /\ [][MatchKey]_vars

(***************************************************************************)
(* resizing and scrolling over a range of terminal widths                  *)
(***************************************************************************)

\* The bound of LayoutSpec: the number of events of a run.
MaxLayoutSteps == 5

\* The terminal widths of LayoutSpec: 6 more than the available widths 14
\* (no column fits), 25, 55, 80, 95 and 130 (every column fits).
LayoutWidths == {20, 31, 61, 86, 101, 136}

\* The terminal is resized.
LayoutResize ==
  /\ running
  /\ steps < MaxLayoutSteps
  /\ \E w \in LayoutWidths : Handled(UpdateWindowSize(M, w, height))

\* The user scrolls the columns left or right.
LayoutScroll ==
  /\ running
  /\ steps < MaxLayoutSteps
  /\ \E msg \in {Key("left"), Key("right")} :
       Handled(UpdateKey(M, msg, TRUE, TRUE))

LayoutNext == LayoutResize \/ LayoutScroll

\* The registry is the one of Init, or it is empty: the table has no rows.
LayoutInit ==
  \E stored \in {InitConfigs, <<>>} :
    Is(updateTable(adjustLayout(NewModel(stored))))

LayoutSpec == LayoutInit /\ [][LayoutNext]_vars

(***************************************************************************)
(* editing: the runs in which the user only edits and adds records         *)
(***************************************************************************)

\* The bound of EditSpec: the number of key presses of a run.
MaxEditSteps == 6

\* A key press in Normal mode that moves the cursor down, edits the record
\* under it or adds a record.
EditStart ==
  /\ steps < MaxEditSteps
  /\ mode = ModeNormal
  /\ \E msg \in {Key("down"), Runes("e"), Runes("n")} :
       Taken(UpdateKey(M, msg, TRUE, TRUE))

\* A key press in Edit or Add mode.
EditTyping ==
  /\ steps < MaxEditSteps
  /\ mode \in {ModeEdit, ModeAdd}
  /\ \E msg \in {Key("esc"), Key("enter"), Key("tab"), Key("shift+tab")}
                \cup TypingKeys(EditTokens) \cup GlobalKeys,
        saveOK \in BOOLEAN :
       Taken(UpdateKey(M, msg, saveOK, TRUE))

EditNext == EditStart \/ EditTyping \/ StatusDelivered

EditSpec == Init /\ [][EditNext]_vars

(***************************************************************************)
(* opening: the runs in which every message arrives before the next key    *)
(***************************************************************************)

\* The user moves the cursor, no message being in flight.
OpenMove ==
  /\ inflight = EmptyBag
  /\ Running
  /\ mode = ModeNormal
  /\ \E msg \in {Key("down"), Key("up")} :
       Handled(UpdateKey(M, msg, TRUE, TRUE))

\* The user opens the record under the cursor, no message being in flight.
OpenStart == inflight = EmptyBag /\ OpenKey

OpenNext == OpenMove \/ OpenStart \/ EditorFinished \/ StatusDelivered

\* The runtime runs every command it is given and sends its message to
\* Update.
OpenSpec ==
  /\ Init
  /\ [][OpenNext]_vars
  /\ WF_vars(EditorFinished)
  /\ WF_vars(StatusDelivered)

(***************************************************************************)
(* persistence: the runs in which every write of the registry succeeds     *)
(***************************************************************************)

\* The keys of the runs of PersistedSpec.
WriteKeys ==
  {Runes("n"), Runes("e"), Runes("d"), Runes("y"), Runes("r"), Key("down"),
   Key("esc"), Key("enter"), Key("tab"), Runes(".yml")}

\* The bound of PersistedSpec: the number of key presses of a run.
MaxWriteSteps == 6

\* A key press; storage.Save and storage.Load succeed.
PersistedKey ==
  /\ steps < MaxWriteSteps
  /\ \E msg \in WriteKeys : Handled(UpdateKey(M, msg, TRUE, TRUE))

PersistedSpec == Init /\ [][PersistedKey]_vars

(***************************************************************************)
(* Properties                                                              *)
(***************************************************************************)

\* The model struct after a step.
After ==
  [configs |-> configs',
   disk |-> disk',
   rows |-> rows',
   shown |-> shown',
   cursor |-> cursor',
   columns |-> columns',
   tableHeight |-> tableHeight',
   width |-> width',
   height |-> height',
   mode |-> mode',
   editRow |-> editRow',
   editCol |-> editCol',
   textInput |-> textInput',
   searchInput |-> searchInput',
   searchQuery |-> searchQuery',
   fuzzyMode |-> fuzzyMode',
   deleteIndex |-> deleteIndex',
   scrollOffset |-> scrollOffset',
   maxCols |-> maxCols',
   configIndices |-> configIndices',
   allColumns |-> allColumns',
   sortedCache |-> sortedCache',
   sortCalls |-> sortCalls',
   cacheValid |-> cacheValid',
   sortByRecent |-> sortByRecent',
   cmd |-> cmd',
   inflight |-> inflight',
   running |-> running',
   statusMsg |-> statusMsg',
   now |-> now',
   steps |-> steps']

\* The step is the handling of key msg, the write of the registry (if the
\* handler makes one) succeeding or not, the read likewise.
Handles(msg, saveOK, loadOK) ==
  After = Outcome([UpdateKey(M, msg, saveOK, loadOK) EXCEPT !.steps = steps + 1])

\* The projection of the Store under the sort mode, the query and the fuzzy
\* flag, computed afresh.
FreshProjection ==
  ProjectionFrom(M, FilteredFrom(M, SortedOf([M EXCEPT !.cacheValid = FALSE])))

\* C1: after every handled event the displayed rows and the index map are
\* the projection of the current Store under the current sort mode, query
\* and fuzzy flag, and the record the resolver returns for the cursor row is
\* the record shown on that row.
ViewIsProjection ==
  /\ rows = FreshProjection.rows
  /\ configIndices = FreshProjection.configIndices
  /\ \A i \in 1..Len(rows) :
       getConfigByDisplayIndex(M, i - 1) # -1 =>
         configs[getConfigByDisplayIndex(M, i - 1) + 1] = shown[i]

\* The keys that commit the field being edited.
CommitKeys == {Key("enter"), Key("tab"), Key("shift+tab")}

\* No two entries of the list have equal Paths.
DistinctPaths(list) ==
  \A i, j \in 1..Len(list) : i # j => list[i].Path # list[j].Path

\* C2: the registry starts with pairwise distinct Paths, and every successful
\* field commit in Edit or Add mode leaves the Store with no two records of
\* equal Path, whatever adds, commits, cancels, deletes, opens and refreshes
\* came before.
CommitKeepsPathsDistinct ==
  /\ DistinctPaths(InitConfigs)
  /\ [][\A msg \in CommitKeys :
          (/\ mode \in {ModeEdit, ModeAdd}
           /\ saveEdit(M, TRUE).err = ""
           /\ Handles(msg, TRUE, TRUE))
          => DistinctPaths(configs')]_vars

\* The errors with which saveEdit rejects a value.
Rejections ==
  {"name cannot be empty", "path cannot be empty", "file already registered"}

\* C3: a field commit in Edit or Add mode that is rejected for an empty Name,
\* an empty Path or a Path another record has leaves every record, the mode
\* and the field index as they were, and returns an error status.
RejectedCommitChangesNothing ==
  [][\A msg \in CommitKeys, saveOK \in BOOLEAN :
       (/\ mode \in {ModeEdit, ModeAdd}
        /\ saveEdit(M, saveOK).err \in Rejections
        /\ Handles(msg, saveOK, TRUE))
       => /\ configs' = configs
          /\ disk' = disk
          /\ mode' = mode
          /\ editRow' = editRow
          /\ editCol' = editCol
          /\ cmd' = showStatus("Failed to save: " \o saveEdit(M, saveOK).err)]_vars

\* A commit has just been rejected because another record has the Path.
DuplicateRejected ==
  /\ mode \in {ModeEdit, ModeAdd}
  /\ editCol = 3
  /\ cmd = showStatus("Failed to save: file already registered")
  /\ \E i \in 1..Len(configs) :
       /\ i # editRow + 1
       /\ configs[i].Path = ExpandPath(TrimSpace(textInput))

\* Whether record R passes the active filter.
Survives(R) ==
  searchQuery = "" \/ matchesSearch(fuzzyMode, R, ToLower(searchQuery))

\* C4: resolver round trip.  For every record R of the Store that passes the
\* active filter, findConfigDisplayIndex(R) is a display index and
\* getConfigByDisplayIndex of it is a record equal to R; for a record the
\* query filters out, findConfigDisplayIndex(R) is -1.
ResolverRoundTrip ==
  \A k \in 1..Len(configs) :
    IF Survives(configs[k])
    THEN /\ findConfigDisplayIndex(M, configs[k]) # -1
         /\ getConfigByDisplayIndex(
              M, findConfigDisplayIndex(M, configs[k])) # -1
         /\ Equals(configs[getConfigByDisplayIndex(
                             M, findConfigDisplayIndex(M, configs[k])) + 1],
                   configs[k])
    ELSE findConfigDisplayIndex(M, configs[k]) = -1

\* C5: getConfigByDisplayIndex returns nil for a negative index, an index at
\* or past the end of the display list and the index of a header row, and a
\* record of the Store for every other index.
RecordAtTotal ==
  \A i \in -2..(Len(rows) + 1) :
    IF i < 0 \/ i >= Len(rows) \/ shown[i + 1] = NoEntry
    THEN getConfigByDisplayIndex(M, i) = -1
    ELSE /\ getConfigByDisplayIndex(M, i) >= 0
         /\ getConfigByDisplayIndex(M, i) < Len(configs)

\* C6: when enter is pressed in Edit or Add mode and the commit of the field
\* succeeds, the mode becomes Normal and the edited record is in the Store
\* with the committed value; a confirm in Add mode does not remove the new
\* record.
ConfirmKeepsRecord ==
  [][(/\ mode \in {ModeEdit, ModeAdd}
      /\ saveEdit(M, TRUE).err = ""
      /\ Handles(Key("enter"), TRUE, TRUE))
     => /\ mode' = ModeNormal
        /\ \E k \in 1..Len(configs') :
             configs'[k] = saveEditAssign(configs[editRow + 1], editCol,
                                          TrimSpace(textInput))]_vars

\* C7: esc in Add mode returns to Normal; the only record it can remove is
\* the one the Add created (the last one), and only while its Path is the
\* placeholder.  A commit of the Path field leaves a Path that is not the
\* placeholder, and it stays so while the mode is Add, so after a Path has
\* been committed esc keeps the record.
CancelRemovesOnlyPlaceholder ==
  [][/\ (mode = ModeAdd /\ Handles(Key("esc"), TRUE, TRUE))
        => /\ mode' = ModeNormal
           /\ editRow + 1 = Len(configs)
           /\ configs[editRow + 1].Path # PlaceholderPath => configs' = configs
           /\ configs' # configs => configs' = RemoveAt(configs, editRow + 1)
     /\ \A msg \in CommitKeys, saveOK \in BOOLEAN :
          (/\ mode = ModeAdd
           /\ editCol = 3
           /\ saveEdit(M, saveOK).err \in {"", "write failed"}
           /\ Handles(msg, saveOK, TRUE))
          => /\ editRow + 1 <= Len(configs')
             /\ configs'[editRow + 1].Path # PlaceholderPath
     /\ (/\ mode = ModeAdd
         /\ mode' = ModeAdd
         /\ configs[editRow + 1].Path # PlaceholderPath)
        => configs'[editRow' + 1].Path # PlaceholderPath]_vars

\* Esc has been pressed in Add mode after the Path was committed: the new
\* record is in the Store with the expanded Path, written to the registry.
CancelledAfterPathCommit ==
  /\ mode = ModeNormal
  /\ cmd = NilCmd
  /\ Len(configs) = Len(InitConfigs) + 1
  /\ configs[Len(configs)].Name = NewConfig.Name
  /\ configs[Len(configs)].Path = ExpandPath(PlaceholderPath)
  /\ disk = configs

\* C8: the Add key in Normal mode appends one placeholder record
\* at the end of the Store, enters Add mode on it at field 0 and persists the
\* Store at once, so the registry on disk holds the placeholder record.
AddAppendsAndPersists ==
  [][(mode = ModeNormal /\ Handles(Runes("n"), TRUE, TRUE))
     => /\ configs' = Append(configs, NewConfig)
        /\ mode' = ModeAdd
        /\ editRow' = Len(configs)
        /\ editCol' = 0
        /\ disk' = configs'
        /\ \E k \in 1..Len(disk') : disk'[k] = NewConfig]_vars

\* C9: the record ConfirmDelete is entered for is the one shown on the cursor
\* row, and y in ConfirmDelete removes exactly that record (the others keep
\* their values and order), writes the new Store and returns to Normal.
DeleteRemovesCursorRecord ==
  [][/\ (mode = ModeNormal /\ mode' = ModeConfirmDelete)
        => /\ cursor >= 0 /\ cursor < Len(shown)
           /\ deleteIndex' >= 0 /\ deleteIndex' < Len(configs)
           /\ Equals(configs[deleteIndex' + 1], shown[cursor + 1])
     /\ (mode = ModeConfirmDelete /\ Handles(Runes("y"), TRUE, TRUE))
        => /\ configs' = RemoveAt(configs, deleteIndex + 1)
           /\ Len(configs') = Len(configs) - 1
           /\ disk' = configs'
           /\ mode' = ModeNormal]_vars

\* The keys that cancel the delete confirmation.
AbortKeys == {Runes("n"), Runes("N"), Key("esc")}

\* C10, as amended: in ConfirmDelete, n, N and esc abort the deletion (the
\* mode becomes Normal, the Store and the registry on disk are unchanged);
\* every other key but y and Y is ignored (the mode stays ConfirmDelete, the
\* Store and the registry on disk are unchanged).
OnlyCancelKeysAbort ==
  [][\A msg \in DeleteConfirmKeys \ {Runes("y"), Runes("Y")},
        saveOK \in BOOLEAN :
       (mode = ModeConfirmDelete /\ Handles(msg, saveOK, TRUE))
       => /\ configs' = configs
          /\ disk' = disk
          /\ mode' = IF msg \in AbortKeys THEN ModeNormal
                     ELSE ModeConfirmDelete]_vars

\* C10, as stated: in ConfirmDelete every key other than y aborts the
\* deletion: the mode becomes Normal and the Store and the registry on disk
\* are unchanged.
EveryOtherKeyAborts ==
  [][\A msg \in DeleteConfirmKeys \ {Runes("y")}, saveOK \in BOOLEAN :
       (mode = ModeConfirmDelete /\ Handles(msg, saveOK, TRUE))
       => /\ configs' = configs
          /\ disk' = disk
          /\ mode' = ModeNormal]_vars

\* A deletion has just been aborted.
DeletionAborted ==
  /\ mode = ModeNormal
  /\ deleteIndex = -1
  /\ cmd = showStatus("Deletion cancelled")
  /\ disk = configs

\* Whether the cursor is on a row that shows a record (not past the rows,
\* not on a group header).
CursorOnRecord ==
  cursor >= 0 /\ cursor < Len(shown) /\ shown[cursor + 1] # NoEntry

\* C11: from Normal the edit key enters Edit, and the delete key
\* ConfirmDelete, only when the cursor row resolves to a record, and then on
\* that record; with the cursor on a group header or with an empty Store the
\* mode stays Normal and the Store is unchanged, and the edit key returns a
\* status message.
EditAndDeleteNeedRecord ==
  [][/\ (mode = ModeNormal /\ Handles(Runes("e"), TRUE, TRUE))
        => /\ mode' \in {ModeNormal, ModeEdit}
           /\ configs' = configs
           /\ mode' = ModeEdit
                => /\ getOriginalIndexByDisplayIndex(M, cursor) # -1
                   /\ editRow' = getOriginalIndexByDisplayIndex(M, cursor)
           /\ (Len(configs) = 0 \/ ~CursorOnRecord)
                => /\ mode' = ModeNormal
                   /\ cmd'.kind = "status"
     /\ (mode = ModeNormal /\ Handles(Runes("d"), TRUE, TRUE))
        => /\ mode' \in {ModeNormal, ModeConfirmDelete}
           /\ configs' = configs
           /\ mode' = ModeConfirmDelete
                => /\ getOriginalIndexByDisplayIndex(M, cursor) # -1
                   /\ deleteIndex' = getOriginalIndexByDisplayIndex(M, cursor)
           /\ (Len(configs) = 0 \/ ~CursorOnRecord)
                => mode' = ModeNormal]_vars

\* The edit key has just been refused because the Store is empty.
EditRefusedOnEmptyStore ==
  /\ mode = ModeNormal
  /\ Len(configs) = 0
  /\ cmd = showStatus("No files to edit")

\* C12, as stated: esc in Edit mode returns to Normal, and while the mode is
\* Edit the Store changes only in a successful field commit, so the Store
\* after esc is the Store of the last successful commit of the session (of
\* the entry if there was none): typed text is discarded, committed fields
\* keep their values.
CancelRestoresLastCommit ==
  [][mode = ModeEdit
     => /\ Handles(Key("esc"), TRUE, TRUE)
             => mode' = ModeNormal /\ configs' = configs /\ disk' = disk
        /\ configs' # configs
             => \E msg \in CommitKeys :
                  /\ saveEdit(M, TRUE).err = ""
                  /\ Handles(msg, TRUE, TRUE)]_vars

\* C12, as amended: esc in Edit mode returns to Normal, and while the mode
\* is Edit the Store changes only in a field commit that passed validation,
\* whether its write succeeded or failed, and then only in the committed
\* field: the Store after esc is the Store of the last such commit of the
\* session (of the entry if there was none).
CancelKeepsValidatedCommits ==
  [][mode = ModeEdit
     => /\ Handles(Key("esc"), TRUE, TRUE)
             => mode' = ModeNormal /\ configs' = configs /\ disk' = disk
        /\ configs' # configs
             => \E msg \in CommitKeys, saveOK \in BOOLEAN :
                  /\ saveEdit(M, saveOK).err \in {"", "write failed"}
                  /\ Handles(msg, saveOK, TRUE)
                  /\ configs' = [configs EXCEPT ![editRow + 1] =
                                   saveEditAssign(@, editCol,
                                                  TrimSpace(textInput))]]_vars

\* Esc has been pressed in Edit mode after a commit whose write failed: the
\* Store keeps the committed value, the registry on disk does not have it.
CancelledAfterFailedWrite ==
  /\ mode = ModeNormal
  /\ cmd = NilCmd
  /\ editRow = -1
  /\ Len(configs) = Len(InitConfigs)
  /\ disk = InitConfigs
  /\ \E k \in 1..Len(configs) : configs[k].Name # InitConfigs[k].Name

\* The modes other than Normal and Help.
EnteredModes == {ModeSearch, ModeEdit, ModeAdd, ModeConfirmDelete}

\* C13, as stated: the help key leads to Help from Normal, Search, Edit, Add
\* and ConfirmDelete, and in Help every key leads to Normal.
HelpFromEveryMode ==
  [][/\ (mode \in {ModeNormal} \cup EnteredModes
         /\ Handles(Runes("?"), TRUE, TRUE))
        => mode' = ModeHelp
     /\ \A msg \in HelpKeys :
          (mode = ModeHelp /\ Handles(msg, TRUE, TRUE)) => mode' = ModeNormal]_vars

\* C13, as amended: the help key leads to Help from Normal only; in Search,
\* Edit and Add it is typed into the input and in ConfirmDelete it is
\* ignored, the mode staying as it was; in Help every key leads to Normal
\* (the quit keys too, without quitting).
HelpFromNormalOnly ==
  [][/\ (mode = ModeNormal /\ Handles(Runes("?"), TRUE, TRUE))
        => mode' = ModeHelp
     /\ (mode \in EnteredModes /\ Handles(Runes("?"), TRUE, TRUE))
        => /\ mode' = mode
           /\ mode = ModeSearch
                => searchInput' = TextInputUpdate(searchInput, Runes("?"),
                                                  SearchCharLimit)
           /\ mode \in {ModeEdit, ModeAdd}
                => textInput' = TextInputUpdate(textInput, Runes("?"),
                                                EditCharLimit)
           /\ mode = ModeConfirmDelete => deleteIndex' = deleteIndex
     /\ \A msg \in HelpKeys :
          (mode = ModeHelp /\ Handles(msg, TRUE, TRUE))
          => mode' = ModeNormal /\ cmd' = NilCmd]_vars

\* The help key has been pressed in Search mode: it is the query.
HelpKeyTypedInSearch ==
  /\ mode = ModeSearch
  /\ searchInput = "?"
  /\ searchQuery = "?"

\* C14: Search, Edit, Add and ConfirmDelete are entered only from Normal: in
\* every step in which the mode becomes one of them, the mode before the
\* step was Normal.
EnteredOnlyFromNormal ==
  [][(mode' \in EnteredModes /\ mode' # mode) => mode = ModeNormal]_vars

\* The delete confirmation has just been entered for a record of the Store.
ConfirmDeleteEntered ==
  /\ mode = ModeConfirmDelete
  /\ cmd = showStatus("Delete?")
  /\ deleteIndex >= 0
  /\ deleteIndex < Len(configs)

\* C15: the quit command is returned only in Normal mode: in Search, Edit,
\* Add, ConfirmDelete and Help no key, q and ctrl+c included, ends the
\* program.
QuitOnlyFromNormal ==
  [][cmd'.kind = "quit" => mode = ModeNormal]_vars

\* The quit key q has been pressed in Search mode: it is the query, and the
\* program runs on.
QuitKeyTypedInSearch ==
  /\ mode = ModeSearch
  /\ searchInput = "q"
  /\ cmd = NilCmd

\* The projection of the Store of model m under its sort mode, query and
\* fuzzy flag, computed afresh.
FreshProjectionOf(m) ==
  ProjectionFrom(m, FilteredFrom(m, SortedOf([m EXCEPT !.cacheValid = FALSE])))

\* The rows and the index map after the step are the projection.
ProjectedAfter(p) ==
  rows' = p.rows /\ configIndices' = p.configIndices /\ shown' = p.shown

\* C16: in Search mode, after every key other than enter and esc (the mode
\* is still Search, the input has taken the key) the query is the text of the search input and the rows
\* are the projection for that query; enter makes the input text the query
\* and returns to Normal; esc empties the query, returns to Normal, and the
\* rows then show every record of the Store.
SearchIsLive ==
  [][/\ \A msg \in TypingKeys(SearchTokens) \cup GlobalKeys :
          (/\ mode = ModeSearch
           /\ mode' = ModeSearch
           /\ searchInput' = TextInputUpdate(searchInput, msg, SearchCharLimit)
           /\ Handles(msg, TRUE, TRUE))
          => /\ searchQuery' = searchInput'
             /\ With(FreshProjectionOf(After), ProjectedAfter)
     /\ (mode = ModeSearch /\ Handles(Key("enter"), TRUE, TRUE))
        => /\ mode' = ModeNormal
           /\ searchInput' = searchInput
           /\ searchQuery' = searchInput
           /\ With(FreshProjectionOf(After), ProjectedAfter)
     /\ (mode = ModeSearch /\ Handles(Key("esc"), TRUE, TRUE))
        => /\ mode' = ModeNormal
           /\ searchQuery' = ""
           /\ \A k \in 1..Len(configs') :
                \E i \in 1..Len(shown') : shown'[i] = configs'[k]
     /\ (mode = ModeSearch /\ steps' = steps + 1)
        => \/ mode' = ModeSearch
           \/ Handles(Key("enter"), TRUE, TRUE)
           \/ Handles(Key("esc"), TRUE, TRUE)]_vars

\* A query typed in Search mode filters the rows as it is typed: one record
\* of the Store is shown under its header, the other is not.
SearchFiltersLive ==
  /\ mode = ModeSearch
  /\ searchInput = "ya"
  /\ searchQuery = "ya"
  /\ ~sortByRecent
  /\ Len(configs) = 2
  /\ Len(rows) = 2

\* C17: an open action whose editor launch fails leaves the state as it was
\* but for a status message.  The open key pressed on a record whose file is
\* missing (the launch fails for certain) leaves every record with its
\* LastOpened, the registry on disk, the mode, the query and the sort mode
\* unchanged, and so does the arrival of the failure.
FailedOpenChangesNothing ==
  [][/\ \A msg \in OpenKeys, saveOK \in BOOLEAN :
          (/\ mode = ModeNormal
           /\ cmd'.kind = "open"
           /\ ~FileExists(cmd'.config.Path)
           /\ Handles(msg, saveOK, TRUE))
          => /\ configs' = configs
             /\ disk' = disk
             /\ mode' = mode
             /\ searchQuery' = searchQuery
             /\ sortByRecent' = sortByRecent
     /\ (cmd.kind = "open" /\ cmd' = showStatus("Failed to open"))
        => /\ configs' = configs
           /\ disk' = disk
           /\ mode' = mode
           /\ searchQuery' = searchQuery
           /\ sortByRecent' = sortByRecent]_vars

\* C18: when a write of the registry fails after the Store has been changed
\* (a field commit, a confirmed delete, the LastOpened stamp of an open), the
\* change is kept, a status message reporting the failure is returned, and
\* the program does not quit.
FailedWriteIsReported ==
  [][/\ \A msg \in CommitKeys :
          (/\ mode \in {ModeEdit, ModeAdd}
           /\ saveEdit(M, FALSE).err = "write failed"
           /\ Handles(msg, FALSE, TRUE))
          => /\ configs' = saveEdit(M, FALSE).m.configs
             /\ cmd' = showStatus("Failed to save: write failed")
     /\ \A msg \in {Runes("y"), Runes("Y")} :
          (/\ mode = ModeConfirmDelete
           /\ deleteIndex >= 0 /\ deleteIndex < Len(configs)
           /\ Handles(msg, FALSE, TRUE))
          => /\ configs' = RemoveAt(configs, deleteIndex + 1)
             /\ cmd' = showStatus("Failed to save: write failed")
     /\ \A msg \in OpenKeys :
          (/\ mode = ModeNormal
           /\ configs' # configs
           /\ Handles(msg, FALSE, TRUE))
          => /\ disk' = disk
             /\ cmd'.kind = "status"
             /\ HasPrefix(cmd'.message, "Failed to save")]_vars

\* The sort keys of a record under ByProjectThenName: the Project, "General"
\* for the empty one, and the Name, both without case.
ProjectKey(c) == ToLower(IF c.Project = "" THEN "General" ELSE c.Project)

NameKey(c) == ToLower(c.Name)

\* Record a may stand before record b: its Project is smaller, or the
\* Projects are equal and its Name is not greater.
InOrder(a, b) ==
  \/ StrLess(ProjectKey(a), ProjectKey(b))
  \/ ProjectKey(a) = ProjectKey(b) /\ ~StrLess(NameKey(b), NameKey(a))

\* Every record occurs in list a as often as in list b.
IsPermutation(a, b) ==
  /\ Len(a) = Len(b)
  /\ \A i \in 1..Len(a) :
       Cardinality({j \in 1..Len(a) : a[j] = a[i]})
         = Cardinality({j \in 1..Len(b) : b[j] = a[i]})

\* The list is in the order of ByProjectThenName and a permutation of the
\* Store.
SortedStore(sorted) ==
  /\ \A i, j \in 1..Len(sorted) : i < j => InOrder(sorted[i], sorted[j])
  /\ IsPermutation(sorted, configs)

\* C19: under ByProjectThenName the sorted list is ordered by Project without
\* case, the empty Project as "General", and among equal Projects by Name
\* without case, and it is a permutation of the Store; the Projects "Zeta",
\* "", "alpha" give the headers alpha, General, Zeta in this order.
SortedByProjectThenName ==
  /\ With(SortConfigs(configs), SortedStore)
  /\ ~sortByRecent => sortedCache = SortConfigs(configs)
  /\ (/\ ~sortByRecent
      /\ searchQuery = ""
      /\ Len(configs) = 3
      /\ {configs[i].Project : i \in 1..Len(configs)} = {"Zeta", "", "alpha"})
     => /\ Len(rows) = 6
        /\ rows[1][1] = HeaderMark \o "alpha"
        /\ rows[3][1] = HeaderMark \o "General"
        /\ rows[5][1] = HeaderMark \o "Zeta"
        /\ \A i \in {1, 3, 5} : shown[i] = NoEntry /\ shown[i + 1] # NoEntry

\* The registry holds the Projects "Zeta", "", "alpha" in this order, with
\* Names in falling order, and the rows are sorted by project: alpha first.
ZetaGeneralAlphaSorted ==
  /\ ~sortByRecent
  /\ searchQuery = ""
  /\ Len(configs) = 3
  /\ configs[1].Project = "Zeta" /\ configs[1].Name = "c"
  /\ configs[2].Project = "" /\ configs[2].Name = "B"
  /\ configs[3].Project = "alpha" /\ configs[3].Name = "a"
  /\ Len(rows) = 6
  /\ rows[1][1] = HeaderMark \o "alpha"
  /\ shown[2] = configs[3]

\* The model m with the sort mode set and the sort cache dropped.
UnderSortMode(m, byRecent) ==
  [m EXCEPT !.sortByRecent = byRecent, !.cacheValid = FALSE]

\* The Project values of a list, the empty one as "General".
DistinctProjects(list) ==
  {DisplayProject(list[i].Project) : i \in 1..Len(list)}

\* The rows of the projection of filtered under ByRecentlyOpened are as many
\* as its records.
RecentRowCount(filtered) ==
  Len(ProjectionFrom(UnderSortMode(M, TRUE), filtered).rows) = Len(filtered)

\* The rows of the projection of filtered under ByProjectThenName are as many
\* as its records and its distinct Projects together.
ProjectRowCount(filtered) ==
  Len(ProjectionFrom(UnderSortMode(M, FALSE), filtered).rows)
    = Len(filtered) + Cardinality(DistinctProjects(filtered))

\* C20: for the Store, the query and the fuzzy flag of the state, the display
\* list under ByRecentlyOpened has as many rows as there are filtered
\* records, the display list under ByProjectThenName has as many rows as
\* there are filtered records and distinct Project values among them
\* together, and the filtered records are the same under both sort modes.
RowCountsBySortMode ==
  /\ With(FilteredOf(UnderSortMode(M, TRUE)), RecentRowCount)
  /\ With(FilteredOf(UnderSortMode(M, FALSE)), ProjectRowCount)
  /\ IsPermutation(FilteredOf(UnderSortMode(M, TRUE)),
                   FilteredOf(UnderSortMode(M, FALSE)))

\* Whether the bytes of p occur in t in this order, not necessarily side by
\* side.
RECURSIVE OrderedIn(_, _)
OrderedIn(p, t) ==
  \/ p = ""
  \/ \E i \in 1..Len(t) :
       /\ At(t, i) = At(p, 1)
       /\ OrderedIn(Tail(p), SubSeq(t, i + 1, Len(t)))

\* The fields the fuzzy search reads.
FuzzyFields(c) == {c.Name, c.Project, c.Path, c.Description}

\* The records of a list.
Records(list) == {list[i] : i \in 1..Len(list)}

\* The records of the Store the search keeps under the query and the fuzzy
\* flag of model m.
Kept(m) == Records(FilteredOf([m EXCEPT !.cacheValid = FALSE]))

\* C21: in fuzzy mode a record matches a non-empty query exactly when the
\* query without case is an ordered subsequence of the text without case of
\* Name, Project, Path or Description (Type is not read); the empty query
\* matches every record and a non-empty query matches no empty field; "dc"
\* matches the Name "docker-compose.yml" and not the Name "readme.md".
FuzzyMatchesSubsequence ==
  /\ \A k \in 1..Len(configs) :
       configs[k] \in Kept([M EXCEPT !.fuzzyMode = TRUE])
         <=> \/ searchQuery = ""
             \/ \E text \in FuzzyFields(configs[k]) :
                  text # "" /\ OrderedIn(ToLower(searchQuery), ToLower(text))
  /\ \A text \in {"", "Docker-Compose.yml", "readme.md"} :
       /\ fuzzyMatch("", text)
       /\ searchQuery # "" => ~fuzzyMatch(ToLower(searchQuery), "")
  /\ fuzzyMatch("dc", "docker-compose.yml")
  /\ ~fuzzyMatch("dc", "readme.md")

\* The fuzzy query "Dc" has been typed: of the three records the rows show
\* the one whose Name and the one whose Project have d and c in this order,
\* and not the one whose Type is "dc".
FuzzyQueryTyped ==
  /\ mode = ModeSearch
  /\ fuzzyMode
  /\ searchQuery = "Dc"
  /\ Len(configs) = 3
  /\ Records(shown) \ {NoEntry} =
       {c \in Records(configs) : c.Name \in {"docker-compose.yml", "Notes"}}

\* Whether t is some text, then p, then some text.
OccursIn(p, t) ==
  \E i \in 0..(Len(t) - Len(p)) :
    SubSeq(t, 1, i) \o p \o SubSeq(t, i + Len(p) + 1, Len(t)) = t

\* The fields the substring search reads.
SubstringFields(c) == {c.Name, c.Project, c.Type, c.Path, c.Description}

\* C27: in substring mode a record matches the query exactly when the
\* query without case occurs as a contiguous substring of the text without
\* case of Name, Project, Type, Path or Description; the empty query
\* matches every record.
SubstringMatchesContiguous ==
  \A k \in 1..Len(configs) :
    /\ configs[k] \in Kept([M EXCEPT !.fuzzyMode = FALSE])
         <=> \E text \in SubstringFields(configs[k]) :
               OccursIn(ToLower(searchQuery), ToLower(text))
    /\ configs[k] \in Kept([M EXCEPT !.fuzzyMode = FALSE, !.searchQuery = ""])

\* The substring query "dc" has been typed: of the three records the rows
\* show only the one whose Type is "dc".
SubstringQueryTyped ==
  /\ mode = ModeSearch
  /\ ~fuzzyMode
  /\ searchQuery = "dc"
  /\ Len(configs) = 3
  /\ Records(shown) \ {NoEntry} =
       {c \in Records(configs) : c.Name = "readme.md"}

\* The sum of the widths of the first n columns of cols.
PrefixWidth(cols, n) == SumWidths(SubSeq(cols, 1, n))

\* The length of the longest prefix of cols that is at most avail wide.
LongestPrefix(cols, avail) ==
  CHOOSE n \in 0..Len(cols) :
    /\ PrefixWidth(cols, n) <= avail
    /\ \A k \in (n + 1)..Len(cols) : PrefixWidth(cols, k) > avail

\* What the layout shows of cols at scroll offset 0 when avail is available.
PrefixLayout(cols, avail) ==
  LET n == LongestPrefix(cols, avail) IN
  IF n = 0 THEN <<[cols[1] EXCEPT !.Width = avail]>>
  ELSE [i \in 1..n |->
          IF i = n
          THEN [cols[i] EXCEPT !.Width = @ + (avail - PrefixWidth(cols, n))]
          ELSE cols[i]]

\* C22: at scroll offset 0 the visible columns are the longest prefix of
\* the declared columns (Name 25, Project 20, Type 10, Path 40, Description
\* 30) that is at most the terminal width minus 6 wide, the first column
\* alone with all of that width when none fits, and the leftover width goes
\* to the last visible column; with 80 available they are Name 25, Project
\* 20, Type 35.
LayoutShowsLongestPrefix ==
  /\ scrollOffset = 0 => columns = PrefixLayout(AllColumns, width - 6)
  /\ PrefixLayout(AllColumns, 80) =
       <<[Title |-> "Name", Width |-> 25], [Title |-> "Project", Width |-> 20],
         [Title |-> "Type", Width |-> 35]>>

\* How many columns the layout shows of cols when avail is available: those
\* of the longest prefix that fits, and one when none fits.
VisibleCount(cols, avail) == Max(LongestPrefix(cols, avail), 1)

\* The visible columns are k columns of the column list, from scrollOffset
\* on.
IsWindow(visible, offset) ==
  /\ Len(visible) >= 1
  /\ 0 <= offset
  /\ offset + Len(visible) <= Len(AllColumns)
  /\ \A i \in 1..Len(visible) : visible[i].Title = AllColumns[offset + i].Title

\* C28: after every layout the visible columns are a non-empty contiguous
\* window of the column list that starts at scrollOffset >= 0 and ends at
\* or before the fifth column; when the window of the columns that fit
\* would run past the last column from the requested offset, scrollOffset
\* is lowered so that the window ends exactly at the last column.  (A
\* layout the table panics in leaves no layout behind: the program ends.)
VisibleWindowClamped ==
  /\ [](IsWindow(columns, scrollOffset))
  /\ [][running' =>
        LET k == VisibleCount(allColumns', width' - 6) IN
        /\ Len(columns') = k
        /\ (width' # width /\ scrollOffset + k > Len(AllColumns))
             => scrollOffset' = Len(AllColumns) - k
        /\ (width' # width /\ scrollOffset + k <= Len(AllColumns))
             => scrollOffset' = scrollOffset]_vars

\* Four columns are visible from the second on: the window ends at the last
\* column, as after widening the terminal with the columns scrolled to the
\* third.
WindowEndsAtLastColumn ==
  /\ scrollOffset = 1
  /\ Len(columns) = 4
  /\ columns[4].Title = "Description"
  /\ width = 101

\* The step is the resize of the terminal to size.
Resized(size) ==
  /\ width' = size[1]
  /\ height' = size[2]
  /\ mode' = mode
  /\ cmd' = NilCmd
  /\ configs' = configs
  /\ cursor' <= cursor
  /\ textInput' = textInput
  /\ searchInput' = searchInput
  /\ deleteIndex' = deleteIndex
  /\ editCol' = editCol
  /\ After = [UpdateWindowSize(M, size[1], size[2]) EXCEPT !.steps = steps + 1]

\* The step leaves the Store, the sort mode, the query and the fuzzy flag
\* as they were.
ProjectorInputsKept ==
  /\ configs' = configs
  /\ sortByRecent' = sortByRecent
  /\ searchQuery' = searchQuery
  /\ fuzzyMode' = fuzzyMode

\* The rows and the cache are those of a projection of the current Store,
\* sort mode, query and fuzzy flag.
Projected(p) ==
  /\ cacheValid
  /\ rows = p.rows
  /\ shown = p.shown
  /\ configIndices = p.configIndices

\* C23 as claimed: a projection requested while none of the Store, the
\* sort mode, the query and the fuzzy flag has changed since the previous
\* projection is served from the cache, without sorting again.
MemoizedPerInputs ==
  [][(ProjectorInputsKept /\ sortCalls' > 0)
       => ~With(FreshProjection, Projected)]_vars

\* C23: the sort is memoized in one cache entry.  A projection requested by
\* a resize or a column scroll while the cache is valid is served from the
\* cache without sorting again, and shows the records of the previous
\* projection when the Store, the sort mode, the query and the fuzzy flag
\* are those of the previous projection; a key press in Search mode and
\* the sort key invalidate the cache and sort again, also when the four
\* inputs are unchanged or were projected before.
CacheServesLayoutOnly ==
  [][/\ (/\ cacheValid
         /\ \/ \E size \in WindowSizes : Resized(size)
            \/ /\ mode = ModeNormal
               /\ scrollOffset' # scrollOffset
               /\ mode' = ModeNormal
               /\ cmd' = NilCmd
               /\ \E msg \in {Key("left"), Key("right")} :
                    Handles(msg, TRUE, TRUE))
        => /\ sortCalls' = 0
           /\ sortedCache' = sortedCache
           /\ With(FreshProjection, Projected)
                => shown' = shown /\ configIndices' = configIndices
     /\ \A msg \in {Key("esc"), Key("enter")} \cup TypingKeys(SearchTokens)
                   \cup GlobalKeys :
          (/\ mode = ModeSearch
           /\ sortCalls' # 1
           /\ searchInput' = (IF msg.s = "esc" THEN ""
                              ELSE IF msg.s = "enter" THEN searchInput
                              ELSE TextInputUpdate(searchInput, msg,
                                                   SearchCharLimit))
           /\ Handles(msg, TRUE, TRUE))
          => sortCalls' = 1
     /\ (mode = ModeNormal /\ sortByRecent' # sortByRecent
         /\ Handles(Runes("s"), TRUE, TRUE))
          => sortCalls' = 1]_vars

\* The first event was a resize to 136 columns: the cache main() filled was
\* valid and the rows were projected without sorting again.
ResizeServedFromCache ==
  /\ steps = 1
  /\ running
  /\ width = 136
  /\ cacheValid
  /\ sortCalls = 0

\* Whether record i of list f starts a run of records with one Project
\* label.
RunStart(f, i) ==
  \/ i = 1
  \/ DisplayProject(f[i].Project) # DisplayProject(f[i - 1].Project)

\* The row of projection p that shows record i of the filtered list.
RowOf(p, i) == CHOOSE k \in 1..Len(p.configIndices) : p.configIndices[k] = i - 1

\* In projection p of list f every record has one row, in the order of f,
\* and the header rows are the rows right before the first record of each
\* run, with the label of the run.
HeadersAtRuns(f, p) ==
  /\ Len(p.rows) = Len(p.configIndices)
  /\ \A i \in 1..Len(f) :
       /\ Cardinality({k \in 1..Len(p.rows) : p.configIndices[k] = i - 1}) = 1
       /\ p.shown[RowOf(p, i)] = f[i]
       /\ i > 1 => RowOf(p, i - 1) < RowOf(p, i)
       /\ RunStart(f, i) <=> /\ RowOf(p, i) > 1
                             /\ p.configIndices[RowOf(p, i) - 1] = -1
       /\ RunStart(f, i) =>
            p.rows[RowOf(p, i) - 1][1]
              = HeaderMark \o DisplayProject(f[i].Project)
  /\ \A k \in 1..Len(p.rows) :
       /\ p.configIndices[k] \in -1..(Len(f) - 1)
       /\ p.configIndices[k] = -1 =>
            k < Len(p.rows) /\ p.configIndices[k + 1] # -1

\* Projection p of list f has one row for every record, in the order of f,
\* and no header row.
NoHeaders(f, p) ==
  /\ Len(p.rows) = Len(f)
  /\ p.configIndices = [k \in 1..Len(f) |-> k - 1]
  /\ p.shown = f

ProjectHeaders(f) ==
  HeadersAtRuns(f, ProjectionFrom(UnderSortMode(M, FALSE), f))

RecentHeaders(f) ==
  NoHeaders(f, ProjectionFrom(UnderSortMode(M, TRUE), f))

\* C24: under ByProjectThenName the display list has a header row right
\* before the first record row of each maximal run of consecutive filtered
\* records with the same Project label (the empty one read as "General") and
\* no other header row; under ByRecentlyOpened it has no header row.
HeadersBeforeEachRun ==
  /\ With(FilteredOf(UnderSortMode(M, FALSE)), ProjectHeaders)
  /\ With(FilteredOf(UnderSortMode(M, TRUE)), RecentHeaders)
  /\ sortByRecent => \A k \in 1..Len(configIndices) : configIndices[k] # -1

\* Three records whose Project labels are alpha, Alpha and alpha in sorted
\* order: three runs, a header row before each record.
ThreeRunsThreeHeaders ==
  /\ ~sortByRecent
  /\ configIndices = <<-1, 0, -1, 1, -1, 2>>
  /\ shown[2].Project = "alpha"
  /\ shown[4].Project = "Alpha"
  /\ shown[6].Project = "alpha"

\* List s is a permutation of the Store in which LastOpened never grows,
\* so that the records never opened come last.
RecentOrder(s) ==
  /\ IsPermutation(s, configs)
  /\ \A i, j \in 1..Len(s) :
       i < j => /\ s[i].LastOpened >= s[j].LastOpened
                /\ s[i].LastOpened = 0 => s[j].LastOpened = 0

\* C25: the list sorted under ByRecentlyOpened is a permutation of the
\* Store in which the LastOpened times are non-increasing, so every record
\* with a zero LastOpened comes after every record with a non-zero one.
SortedByRecency ==
  /\ With(SortedOf(UnderSortMode(M, TRUE)), RecentOrder)
  /\ (sortByRecent /\ ~cacheValid) => With(getSortedConfigs(M).sortedCache,
                                          RecentOrder)

\* Both records have been opened, the second of the Store last, and the
\* list sorted under ByRecentlyOpened has it first.
LastOpenedComesFirst ==
  /\ sortByRecent
  /\ cacheValid
  /\ Len(configs) = 2
  /\ configs[1].LastOpened = 1
  /\ configs[2].LastOpened = 2
  /\ sortedCache = <<configs[2], configs[1]>>

\* The positions of list sorted whose record the matcher accepts for the
\* query and the fuzzy flag of the state.
Matching(sorted) ==
  {i \in 1..Len(sorted) :
     matchesSearch(fuzzyMode, sorted[i], ToLower(searchQuery))}

\* List f is the records of sorted at the positions the matcher accepts, in
\* the order of sorted.
IsMatchingSubsequence(f, sorted) ==
  /\ Len(f) = Cardinality(Matching(sorted))
  /\ \A k \in 1..Len(f) :
       \E i \in Matching(sorted) :
         /\ Cardinality({j \in Matching(sorted) : j < i}) = k - 1
         /\ f[k] = sorted[i]
  /\ searchQuery = "" => f = sorted

FilterOfSorted(sorted) ==
  IsMatchingSubsequence(FilteredFrom(M, sorted), sorted)

\* C26: the filtered list is the subsequence of the sorted list made of
\* the records the matcher accepts for the current query and fuzzy flag, in
\* the order of the sorted list; with an empty query it is the sorted list.
FilterKeepsSortedOrder ==
  With(SortedOf([M EXCEPT !.cacheValid = FALSE]), FilterOfSorted)

\* Under ByRecentlyOpened, with no record opened, the query "al" keeps the
\* first and the third of three records and drops the one between them.
FilterDropsMiddleRecord ==
  /\ sortByRecent
  /\ searchQuery = "al"
  /\ Len(configs) = 3
  /\ sortedCache = configs
  /\ shown = <<configs[1], configs[3]>>

\* Field i (0 to 4) of record c.
FieldAt(c, i) ==
  CASE i = 0 -> c.Name
    [] i = 1 -> c.Project
    [] i = 2 -> c.Type
    [] i = 3 -> c.Path
    [] i = 4 -> c.Description

\* What a commit of field i stores of the text of the input.
StoredText(i, text) ==
  IF i = 3 THEN ExpandPath(TrimSpace(text)) ELSE TrimSpace(text)

\* The field index a field key leads to.
FieldAfter(msg, i) == IF msg.s = "tab" THEN (i + 1) % 5 ELSE (i + 4) % 5

\* C29: in Edit and Add mode the field index is in 0..4.  The next-field
\* key moves from field i to (i+1) mod 5 and the previous-field key to
\* (i-1) mod 5, only once the text of the current field is stored in the
\* record and the Store is saved, and the input then holds the stored value
\* of the new field; when the commit fails, which the handler reports, the
\* field index does not change.
FieldKeysCycle ==
  [][/\ mode' \in {ModeEdit, ModeAdd} => editCol' \in 0..4
     /\ \A msg \in {Key("tab"), Key("shift+tab")}, saveOK \in BOOLEAN :
          (/\ mode \in {ModeEdit, ModeAdd}
           /\ mode' = mode
           /\ editRow' = editRow
           /\ Handles(msg, saveOK, TRUE))
          => /\ editCol' \in {editCol, FieldAfter(msg, editCol)}
             /\ editCol' = editCol <=> cmd'.kind = "status"
             /\ ~saveOK => editCol' = editCol
             /\ editCol' # editCol =>
                  /\ FieldAt(configs'[editRow + 1], editCol)
                       = StoredText(editCol, textInput)
                  /\ disk' = configs'
                  /\ textInput' = FieldAt(configs'[editRow + 1], editCol')]_vars

\* The previous-field key on the first field of the record being edited has
\* led to the last field, whose stored value is in the input.
WrappedToLastField ==
  /\ mode = ModeEdit
  /\ steps = 3
  /\ editCol = 4
  /\ disk = configs
  /\ textInput = configs[editRow + 1].Description

\* The keys whose handlers change the Store in the mode of the state: the
\* commit keys and the cancel key of Edit and Add mode, the keys of the
\* delete confirmation, the open keys, the add key and the reload key.
MutationKeys ==
  CASE mode \in {ModeEdit, ModeAdd} -> CommitKeys \cup {Key("esc")}
    [] mode = ModeConfirmDelete -> DeleteConfirmKeys
    [] mode = ModeNormal -> OpenKeys \cup {Runes("n"), Runes("r")}
    [] OTHER -> {}

\* The step is a key press that changed the Store, every write and read of
\* the registry file succeeding.
SuccessfulMutation ==
  /\ configs' # configs
  /\ \E msg \in MutationKeys : Handles(msg, TRUE, TRUE)

\* The list the sort of the Store gives after the step.
SortedAfter == SortedOf([After EXCEPT !.cacheValid = FALSE])

\* C30: every successful mutation of the Store (field commit, add,
\* confirmed delete, removal of the placeholder on cancel, LastOpened on
\* open, reload) invalidates the cache: after it the cache is either marked
\* invalid or holds a list sorted again from the mutated Store, never a
\* list sorted before the mutation.
MutationInvalidatesCache ==
  [][SuccessfulMutation
       => \/ ~cacheValid'
          \/ sortCalls' >= 1 /\ sortedCache' = SortedAfter]_vars

\* A record has been deleted and the registry written: the cache holds the
\* sort of the one record left.
CacheSortedAfterDelete ==
  /\ mode = ModeNormal
  /\ cmd = showStatus("Deleted")
  /\ Len(configs) = 1
  /\ disk = configs
  /\ cacheValid
  /\ sortCalls >= 1
  /\ sortedCache = configs

\* The status commands Update returns for an editorFinishedMsg.
CompletionStatus == {showStatus("Opened"), showStatus("Failed to open")}

\* C31: every open action is eventually followed by its completion event,
\* success or error, handled by Update and shown as the status message,
\* with a terminal editor as with a background one.
OpenLeadsToCompletion ==
  /\ (\E c \in BagToSet(inflight) : c.kind = "open")
       ~> (\E c \in BagToSet(inflight) : c \in CompletionStatus)
  /\ (\E c \in BagToSet(inflight) : c \in CompletionStatus)
       ~> (statusMsg \in {"Opened", "Failed to open"})

\* The model after the sort key has been pressed twice in model m.
SortKeyTwice(m) ==
  UpdateKey(UpdateKey(m, Runes("s"), TRUE, TRUE), Runes("s"), TRUE, TRUE)

\* Model t has the sort mode, the display list, the Store, the query and
\* the fuzzy flag of the state.
RestoredIn(t) ==
  /\ t.sortByRecent = sortByRecent
  /\ t.rows = rows
  /\ t.configIndices = configIndices
  /\ t.configs = configs
  /\ t.searchQuery = searchQuery
  /\ t.fuzzyMode = fuzzyMode

\* C32: the sort key toggles between two sort modes: one press in Normal
\* mode changes the sort mode, and two presses with no event between them
\* give back the sort mode and the display list there were, the Store, the
\* query and the fuzzy flag being unchanged.
SortKeyTwiceRestores ==
  mode = ModeNormal =>
    /\ UpdateKey(M, Runes("s"), TRUE, TRUE).sortByRecent = ~sortByRecent
    /\ With(SortKeyTwice(M), RestoredIn)

\* C33: in every reachable state, also after a write of the registry has
\* failed, a cache marked valid holds the sort of the Store under the sort
\* mode of the state.
CacheCoherent ==
  cacheValid => sortedCache = SortedOf([M EXCEPT !.cacheValid = FALSE])

\* C34: in every reachable state in Normal mode in which no write of the
\* registry has failed, the registry on disk is the Store: every add,
\* committed field, removal of the placeholder and delete has been written.
DiskIsStoreInNormal ==
  mode = ModeNormal => disk = configs

\* C35: in Edit and Add mode the edited-row index is an index into the
\* Store and the field index is in 0..4; in ConfirmDelete the delete index
\* is an index into the Store.
IndicesValid ==
  /\ mode \in {ModeEdit, ModeAdd} =>
       /\ editRow \in 0..(Len(configs) - 1)
       /\ editCol \in 0..4
  /\ mode = ModeConfirmDelete => deleteIndex \in 0..(Len(configs) - 1)

\* The deletion of the last record of the Store awaits its confirmation.
ConfirmingLastRecord ==
  /\ mode = ModeConfirmDelete
  /\ Len(configs) = 2
  /\ deleteIndex = 1

\* C36: layout never changes the declared widths of the column list (Name
\* 25, Project 20, Type 10, Path 40, Description 30), so the visible
\* columns and their widths are those the layout gives for the declared
\* column list, the terminal width and the scroll offset of the state,
\* whatever the earlier terminal widths.
DeclaredWidthsKept ==
  /\ allColumns = AllColumns
  /\ columns = adjustLayout([M EXCEPT !.allColumns = AllColumns]).columns

\* C37: after every layout, at every terminal width and every reachable
\* scroll offset, the widths of the visible columns sum to no more than the
\* terminal width minus 6, and to exactly it once the leftover is added to
\* the last visible column.
VisibleWidthsFill ==
  /\ SumWidths(columns) <= width - 6
  /\ SumWidths(columns) = width - 6

\* The record the commit of text to field col makes of record c: the field
\* holds the stored text; a Path commit also sets Type to the type of the
\* Path when Type was empty or "txt"; every other field is as it was.
Committed(c, col, text) ==
  [Name |-> IF col = 0 THEN StoredText(0, text) ELSE c.Name,
   Project |-> IF col = 1 THEN StoredText(1, text) ELSE c.Project,
   Type |-> IF col = 2 THEN StoredText(2, text)
            ELSE IF col = 3 /\ c.Type \in {"", "txt"}
            THEN DetectFileType(StoredText(3, text))
            ELSE c.Type,
   Path |-> IF col = 3 THEN StoredText(3, text) ELSE c.Path,
   Description |-> IF col = 4 THEN StoredText(4, text) ELSE c.Description,
   LastOpened |-> c.LastOpened]

\* The step is a successful commit of the field being edited: a field key
\* that moved to another field, or the enter key that left the mode.
CommittedBy(msg) ==
  /\ mode \in {ModeEdit, ModeAdd}
  /\ IF msg.s = "enter" THEN mode' = ModeNormal
     ELSE mode' = mode /\ editCol' # editCol
  /\ Handles(msg, TRUE, TRUE)

\* C38: a successful field commit in Edit or Add mode leaves every other
\* record and the order of the Store as they were, and changes of the
\* record being edited only the committed field, but that a Path commit
\* sets Type to the type detected from the Path when Type was empty or
\* "txt".
CommitChangesOneField ==
  [][\A msg \in CommitKeys :
       CommittedBy(msg) =>
         configs' = [configs EXCEPT ![editRow + 1] =
                       Committed(@, editCol, textInput)]]_vars

\* Index map idx of row list rws is well formed for n filtered records:
\* as long as the row list, its entries other than -1 are 0, 1, ..., n-1
\* in increasing order, and under ByProjectThenName a row list that is not
\* empty starts with a header row.
WellFormed(idx, rws, n, byRecent) ==
  /\ Len(idx) = Len(rws)
  /\ \A k \in 1..Len(idx) : idx[k] \in -1..(n - 1)
  /\ \A i \in 0..(n - 1) : \E k \in 1..Len(idx) : idx[k] = i
  /\ \A k1, k2 \in 1..Len(idx) :
       (k1 < k2 /\ idx[k1] # -1 /\ idx[k2] # -1) => idx[k1] < idx[k2]
  /\ (~byRecent /\ Len(rws) > 0) => idx[1] = -1

\* The projection of the filtered list f under the sort mode of the state
\* has a well-formed index map.
ProjectionWellFormed(f) ==
  WellFormed(ProjectionFrom(M, f).configIndices, ProjectionFrom(M, f).rows,
             Len(f), sortByRecent)

\* C39: after every projection the index map is as long as the row list,
\* its entries that are not headers are 0, 1, ..., n-1 in increasing order,
\* n being the number of filtered records, its header entries are -1, and
\* under ByProjectThenName a display list that is not empty starts with a
\* header row.
IndexMapWellFormed ==
  /\ WellFormed(configIndices, rows,
                Cardinality({k \in 1..Len(shown) : shown[k] # NoEntry}),
                sortByRecent)
  /\ \A k \in 1..Len(configIndices) :
       configIndices[k] = -1 <=> shown[k] = NoEntry
  /\ With(FilteredOf([M EXCEPT !.cacheValid = FALSE]), ProjectionWellFormed)

\* After a handler projected three records in two groups: a header, two
\* records, a header, a record.
TwoGroupsIndexed ==
  /\ steps > 0
  /\ ~sortByRecent
  /\ Len(rows) = 5
  /\ configIndices = <<-1, 0, 1, -1, 2>>

====
